---------------------------- MODULE Spec2Model ----------------------------
(***************************************************************************)
(* JobGenie matching and scoring engine: src/nlp/matcher.py (JobMatcher),  *)
(* and the loop that applies to the listings it scored:                    *)
(* src/auto_candidature_manager.py (AutoCandidatureManager).               *)
(*                                                                         *)
(* Python strings are sequences of one-character strings.  A dictionary    *)
(* field is a tagged value (absent key, None, str, int, float).  Scores    *)
(* are exact fixed-point numbers: a score x is held as the integer         *)
(* x * Unit(P), Unit(P) = 1000 * max(1, len(stack_technique)), so that the *)
(* fraction matches/len(keywords) and the weights are exact.               *)
(***************************************************************************)
EXTENDS Integers, Sequences, FiniteSets, TLC

VARIABLES preferences, now, jobs, heap, input, pc, i,
          recent_jobs, scored_jobs, filtered_jobs, result, exc,
          results, prepared, calls

vars == <<preferences, now, jobs, heap, input, pc, i,
          recent_jobs, scored_jobs, filtered_jobs, result, exc,
          results, prepared, calls>>

(***************************************************************************)
(* Python values                                                           *)
(***************************************************************************)
Absent == [t |-> "absent", s |-> <<>>, n |-> 0]

PyNone == [t |-> "none", s |-> <<>>, n |-> 0]

PyStr(s) == [t |-> "str", s |-> s, n |-> 0]

PyInt(n) == [t |-> "int", s |-> <<>>, n |-> n]

PyFloat(n) == [t |-> "float", s |-> <<>>, n |-> n]

\* dict.get(key, default): the default only when the key is missing
Get(v, default) == IF v.t = "absent" THEN default ELSE v

\* dict.get(key): None when the key is missing
Get0(v) == Get(v, PyNone)

\* bool(v)
Truthy(v) ==
    CASE v.t = "str" -> v.s # <<>>
      [] v.t \in {"int", "float"} -> v.n # 0
      [] OTHER -> FALSE

(***************************************************************************)
(* Strings                                                                 *)
(***************************************************************************)
Uppers == <<"A","B","C","D","E","F","G","H","I","J","K","L","M",
            "N","O","P","Q","R","S","T","U","V","W","X","Y","Z">>

Lowers == <<"a","b","c","d","e","f","g","h","i","j","k","l","m",
            "n","o","p","q","r","s","t","u","v","w","x","y","z">>

Digits == <<"0","1","2","3","4","5","6","7","8","9">>

LowerChar(c) ==
    IF \E k \in 1..Len(Uppers) : Uppers[k] = c
    THEN Lowers[CHOOSE k \in 1..Len(Uppers) : Uppers[k] = c]
    ELSE c

\* str.lower()
Lower(s) == [k \in 1..Len(s) |-> LowerChar(s[k])]

\* a in b, for strings
IsSubstr(a, b) ==
    \E k \in 0..(Len(b) - Len(a)) : SubSeq(b, k + 1, k + Len(a)) = a

IsDigit(c) == \E k \in 1..Len(Digits) : Digits[k] = c

DigitVal(c) == (CHOOSE k \in 1..Len(Digits) : Digits[k] = c) - 1

\* \s of the re module, on the characters of the model
IsSpace(c) == c \in {" ", "\t"}

RECURSIVE DecimalValue(_)
\* int()/float() of a string of decimal digits
DecimalValue(s) ==
    IF s = <<>> THEN 0
    ELSE 10 * DecimalValue(SubSeq(s, 1, Len(s) - 1)) + DigitVal(s[Len(s)])

AllDigits(s) == \A k \in 1..Len(s) : IsDigit(s[k])

(***************************************************************************)
(* Dates: datetime.strptime(s, '%Y-%m-%d'), strftime, ordinals             *)
(***************************************************************************)
IsLeap(y) == (y % 4 = 0) /\ ((y % 100 # 0) \/ (y % 400 = 0))

DaysInMonth(y, m) ==
    CASE m \in {4, 6, 9, 11} -> 30
      [] m = 2 -> IF IsLeap(y) THEN 29 ELSE 28
      [] OTHER -> 31

RECURSIVE DaysBeforeMonth(_, _)
DaysBeforeMonth(y, m) ==
    IF m <= 1 THEN 0 ELSE DaysBeforeMonth(y, m - 1) + DaysInMonth(y, m - 1)

\* date.toordinal(): days since 0001-01-01, that day being 1
Ordinal(y, m, d) ==
    365 * (y - 1) + ((y - 1) \div 4) - ((y - 1) \div 100) + ((y - 1) \div 400)
    + DaysBeforeMonth(y, m) + d

\* the %m directive: 1[0-2]|0[1-9]|[1-9], first alternative that matches at k
MonthLen(s, k) ==
    CASE k + 1 <= Len(s) /\ s[k] = "1" /\ s[k + 1] \in {"0", "1", "2"} -> 2
      [] k + 1 <= Len(s) /\ s[k] = "0" /\ IsDigit(s[k + 1]) /\ s[k + 1] # "0" -> 2
      [] k <= Len(s) /\ IsDigit(s[k]) /\ s[k] # "0" -> 1
      [] OTHER -> 0

\* the %d directive: 3[0-1]|[1-2]\d|0[1-9]|[1-9]| [1-9]
DayLen(s, k) ==
    CASE k + 1 <= Len(s) /\ s[k] = "3" /\ s[k + 1] \in {"0", "1"} -> 2
      [] k + 1 <= Len(s) /\ s[k] \in {"1", "2"} /\ IsDigit(s[k + 1]) -> 2
      [] k + 1 <= Len(s) /\ s[k] = "0" /\ IsDigit(s[k + 1]) /\ s[k + 1] # "0" -> 2
      [] k <= Len(s) /\ IsDigit(s[k]) /\ s[k] # "0" -> 1
      [] k + 1 <= Len(s) /\ s[k] = " " /\ IsDigit(s[k + 1]) /\ s[k + 1] # "0" -> 2
      [] OTHER -> 0

NoDate == [ok |-> FALSE, y |-> 0, m |-> 0, d |-> 0]

\* datetime.strptime(s, '%Y-%m-%d') on a str: the date, or ok = FALSE for
\* ValueError (no match, unconverted data, day out of range, year 0)
Strptime(s) ==
    IF ~(Len(s) >= 5 /\ AllDigits(SubSeq(s, 1, 4)) /\ s[5] = "-") THEN NoDate
    ELSE LET ml == MonthLen(s, 6)
             ds == 6 + ml + 1
         IN IF ml = 0 \/ ds - 1 > Len(s) THEN NoDate
            ELSE IF s[ds - 1] # "-" THEN NoDate
            ELSE LET dl == DayLen(s, ds)
                 IN IF dl = 0 \/ ds + dl - 1 # Len(s) THEN NoDate
                    ELSE LET y == DecimalValue(SubSeq(s, 1, 4))
                             m == DecimalValue(SubSeq(s, 6, 5 + ml))
                             dtxt == SubSeq(s, ds, ds + dl - 1)
                             d == DecimalValue(IF dtxt[1] = " " THEN Tail(dtxt) ELSE dtxt)
                         IN IF y < 1 \/ d > DaysInMonth(y, m) THEN NoDate
                            ELSE [ok |-> TRUE, y |-> y, m |-> m, d |-> d]

TwoDigits(n) == <<Digits[(n \div 10) + 1], Digits[(n % 10) + 1]>>

\* date.strftime('%Y-%m-%d')
Strftime(y, m, d) ==
    TwoDigits(y \div 100) \o TwoDigits(y % 100) \o <<"-">> \o TwoDigits(m)
    \o <<"-">> \o TwoDigits(d)

\* '%Y-%m-%d' written without zero padding, which strptime accepts as well
StrftimeNoPad(y, m, d) ==
    TwoDigits(y \div 100) \o TwoDigits(y % 100) \o <<"-">>
    \o (IF m < 10 THEN <<Digits[m + 1]>> ELSE TwoDigits(m)) \o <<"-">>
    \o (IF d < 10 THEN <<Digits[d + 1]>> ELSE TwoDigits(d))

(***************************************************************************)
(* Scores.  P is the preferences object; a missing preference key reads as *)
(* its default ([] or 0), which is how the code reads it.                  *)
(***************************************************************************)
\* weights drifted to a total of 1.1: the keywords weigh 0.4
weights_drifted == [keywords |-> 40, location |-> 25, contract_type |-> 20,
                    salary |-> 15, company_size |-> 10]

\* Pondérations pour le scoring, in percent
weights == [keywords |-> 30, location |-> 25, contract_type |-> 20,
            salary |-> 15, company_size |-> 10]

\* the integer that holds the score 1.0
Unit(P) == 1000 * (IF P.stack_technique = <<>> THEN 1 ELSE Len(P.stack_technique))

\* the score x/10
Tenths(P, x) == x * (Unit(P) \div 10)

\* the acceptance threshold of filter_jobs, in tenths
MinScoreTenths == 6

\* the floor of _apply_strict_filters, in tenths
SafetyFloorTenths == 3

\* the horizon of _is_job_recent, in days
MaxAgeDays == 7

\* the default threshold of _fuzzy_match, in tenths
FuzzyThresholdTenths == 8

\* the share of salaire_min that still earns 0.7, in tenths
NearSalaryTenths == 8

Returned(v) == [ok |-> TRUE, v |-> v]

\* an exception leaves the function
Raised == [ok |-> FALSE, v |-> 0]

RECURSIVE DecimalDigits(_)
DecimalDigits(n) ==
    IF n < 10 THEN <<Digits[n + 1]>>
    ELSE DecimalDigits(n \div 10) \o <<Digits[(n % 10) + 1]>>

\* how an f-string renders a field: str(v)
Format(v) ==
    CASE v.t = "str" -> v.s
      [] v.t = "none" -> <<"N", "o", "n", "e">>
      [] v.t = "int" -> IF v.n < 0 THEN <<"-">> \o DecimalDigits(-v.n)
                        ELSE DecimalDigits(v.n)
      [] OTHER -> <<>>

\* f"{job.get('titre', '')} {job.get('description', '')}".lower()
JobText(job) ==
    Lower(Format(Get(job.titre, PyStr(<<>>))) \o <<" ">>
          \o Format(Get(job.description, PyStr(<<>>))))

\* CountMatches counting equal entries once
CountMatchesDistinct(keywords, text) ==
    Cardinality({Lower(keywords[k]) : k \in {j \in 1..Len(keywords) :
                                                IsSubstr(Lower(keywords[j]), text)}})

\* number of entries of keywords, duplicates counted, found in text
RECURSIVE CountMatches(_, _)
CountMatches(keywords, text) ==
    IF keywords = <<>> THEN 0
    ELSE (IF IsSubstr(Lower(Head(keywords)), text) THEN 1 ELSE 0)
         + CountMatches(Tail(keywords), text)

calculate_keyword_score(P, job) ==
    LET keywords == P.stack_technique
    IN IF keywords = <<>> THEN Returned(Tenths(P, 5))
       ELSE Returned((CountMatches(keywords, JobText(job)) * Unit(P)) \div Len(keywords))

(***************************************************************************)
(* difflib.SequenceMatcher(None, a, b).ratio(), no junk (autojunk acts     *)
(* only on sequences of 200 elements and more)                             *)
(***************************************************************************)
Min2(x, y) == IF x <= y THEN x ELSE y

\* the common blocks of a[alo..ahi] and b[blo..bhi], as <<start in a, start in b, size>>
CommonBlocks(a, alo, ahi, b, blo, bhi) ==
    {blk \in (alo..ahi) \X (blo..bhi) \X (1..Min2(ahi - alo + 1, bhi - blo + 1)) :
        /\ blk[1] + blk[3] - 1 <= ahi
        /\ blk[2] + blk[3] - 1 <= bhi
        /\ SubSeq(a, blk[1], blk[1] + blk[3] - 1) = SubSeq(b, blk[2], blk[2] + blk[3] - 1)}

\* find_longest_match: the longest block, of those the earliest in a, of
\* those the earliest in b; size 0 when there is none
find_longest_match(a, alo, ahi, b, blo, bhi) ==
    LET B == CommonBlocks(a, alo, ahi, b, blo, bhi)
    IN IF B = {} THEN <<alo, blo, 0>>
       ELSE CHOOSE blk \in B :
              \A o \in B :
                 \/ blk[3] > o[3]
                 \/ (blk[3] = o[3] /\ blk[1] < o[1])
                 \/ (blk[3] = o[3] /\ blk[1] = o[1] /\ blk[2] <= o[2])

RECURSIVE MatchingSize(_, _, _, _, _, _)
\* the total size of get_matching_blocks on a[alo..ahi], b[blo..bhi]
MatchingSize(a, alo, ahi, b, blo, bhi) ==
    IF alo > ahi \/ blo > bhi THEN 0
    ELSE LET blk == find_longest_match(a, alo, ahi, b, blo, bhi)
         IN IF blk[3] = 0 THEN 0
            ELSE blk[3]
                 + MatchingSize(a, alo, blk[1] - 1, b, blo, blk[2] - 1)
                 + MatchingSize(a, blk[1] + blk[3], ahi, b, blk[2] + blk[3], bhi)

\* fuzzy_match counting the longest common block only
fuzzy_match_longest(text1, text2) ==
    LET total == Len(text1) + Len(text2)
        matches == find_longest_match(text1, 1, Len(text1), text2, 1, Len(text2))[3]
    IN IF total = 0 THEN TRUE
       ELSE 2 * matches * 10 >= FuzzyThresholdTenths * total

\* ratio() >= threshold, ratio() = 2.0 * matches / (len(a) + len(b))
fuzzy_match(text1, text2) ==
    LET total == Len(text1) + Len(text2)
        matches == MatchingSize(text1, 1, Len(text1), text2, 1, Len(text2))
    IN IF total = 0 THEN TRUE
       ELSE 2 * matches * 10 >= FuzzyThresholdTenths * total

\* calculate_location_score reading the location of the listing first
calculate_location_score_eager(P, job) ==
    LET preferred_locations == P.localisation
        loc == Get(job.localisation, PyStr(<<>>))
    IN IF loc.t # "str" THEN Raised
       ELSE IF preferred_locations = <<>> THEN Returned(Tenths(P, 5))
       ELSE LET job_location == Lower(loc.s)
            IN IF job_location = <<>> THEN Returned(Tenths(P, 3))
               ELSE IF \E k \in 1..Len(preferred_locations) :
                          IsSubstr(Lower(preferred_locations[k]), job_location)
                    THEN Returned(Tenths(P, 10))
               ELSE IF \E k \in 1..Len(preferred_locations) :
                          fuzzy_match(Lower(preferred_locations[k]), job_location)
                    THEN Returned(Tenths(P, 8))
               ELSE Returned(Tenths(P, 2))

\* _calculate_location_score: the preferences are read before the listing
\* calculate_location_score trying each preferred location in turn, exact
\* then fuzzy, in one loop
calculate_location_score_entrywise(P, job) ==
    LET preferred_locations == P.localisation
        loc == Get(job.localisation, PyStr(<<>>))
    IN IF preferred_locations = <<>> THEN Returned(Tenths(P, 5))
       ELSE IF loc.t # "str" THEN Raised
       ELSE LET job_location == Lower(loc.s)
                hits == {k \in 1..Len(preferred_locations) :
                            \/ IsSubstr(Lower(preferred_locations[k]), job_location)
                            \/ fuzzy_match(Lower(preferred_locations[k]), job_location)}
                first == CHOOSE k \in hits : \A o \in hits : k <= o
            IN IF job_location = <<>> THEN Returned(Tenths(P, 3))
               ELSE IF hits = {} THEN Returned(Tenths(P, 2))
               ELSE IF IsSubstr(Lower(preferred_locations[first]), job_location)
                    THEN Returned(Tenths(P, 10))
               ELSE Returned(Tenths(P, 8))

calculate_location_score(P, job) ==
    LET preferred_locations == P.localisation
        loc == Get(job.localisation, PyStr(<<>>))
    IN IF preferred_locations = <<>> THEN Returned(Tenths(P, 5))
       ELSE IF loc.t # "str" THEN Raised      \* .lower() of None or of a number
       ELSE LET job_location == Lower(loc.s)
            IN IF job_location = <<>> THEN Returned(Tenths(P, 3))
               ELSE IF \E k \in 1..Len(preferred_locations) :
                          IsSubstr(Lower(preferred_locations[k]), job_location)
                    THEN Returned(Tenths(P, 10))
               ELSE IF \E k \in 1..Len(preferred_locations) :
                          fuzzy_match(Lower(preferred_locations[k]), job_location)
                    THEN Returned(Tenths(P, 8))
               ELSE Returned(Tenths(P, 2))

\* calculate_contract_score comparing the preferred types as they are written
calculate_contract_score_cased(P, job) ==
    LET preferred_contracts == P.type_contrat
        con == Get(job.type_contrat, PyStr(<<>>))
    IN IF preferred_contracts = <<>> THEN Returned(Tenths(P, 5))
       ELSE IF con.t # "str" THEN Raised
       ELSE LET job_contract == Lower(con.s)
            IN IF job_contract = <<>> THEN Returned(Tenths(P, 3))
               ELSE IF \E k \in 1..Len(preferred_contracts) :
                          IsSubstr(preferred_contracts[k], job_contract)
                    THEN Returned(Tenths(P, 10))
               ELSE Returned(Tenths(P, 2))

\* _calculate_contract_score
calculate_contract_score(P, job) ==
    LET preferred_contracts == P.type_contrat
        con == Get(job.type_contrat, PyStr(<<>>))
    IN IF preferred_contracts = <<>> THEN Returned(Tenths(P, 5))
       ELSE IF con.t # "str" THEN Raised
       ELSE LET job_contract == Lower(con.s)
            IN IF job_contract = <<>> THEN Returned(Tenths(P, 3))
               ELSE IF \E k \in 1..Len(preferred_contracts) :
                          IsSubstr(Lower(preferred_contracts[k]), job_contract)
                    THEN Returned(Tenths(P, 10))
               ELSE Returned(Tenths(P, 2))

(***************************************************************************)
(* Salary: re.search(pattern, salary_text, re.IGNORECASE) for the patterns *)
(* GROUP \s* ENDING, GROUP being one to three digits followed by any number  *)
(* of repeats of one white space and three digits                          *)
(***************************************************************************)
Euro == "€"

\* patterns with the currency code tried before the euro sign
patterns_code_first == << <<"E", "U", "R">>, <<Euro>>, <<"k", Euro>>, <<"K">> >>

\* the literal endings of the four patterns, in the order of the list
patterns == << <<Euro>>, <<"E", "U", "R">>, <<"k", Euro>>, <<"K">> >>

DigitsAt(s, k, n) == k + n - 1 <= Len(s) /\ AllDigits(SubSeq(s, k, k + n - 1))

RECURSIVE MaxGroups(_, _)
\* how many repeats (a white space, three digits) match in a row from p
MaxGroups(s, p) ==
    IF p <= Len(s) /\ IsSpace(s[p]) /\ DigitsAt(s, p + 1, 3)
    THEN 1 + MaxGroups(s, p + 4)
    ELSE 0

RECURSIVE SkipSpaces(_, _)
\* \s* is greedy and the endings start with no space: all the spaces from p
SkipSpaces(s, p) ==
    IF p <= Len(s) /\ IsSpace(s[p]) THEN SkipSpaces(s, p + 1) ELSE p

\* EndingAt comparing the letters with their case (no re.IGNORECASE)
EndingAtCased(s, p, suffix) ==
    LET q == SkipSpaces(s, p)
    IN /\ q + Len(suffix) - 1 <= Len(s)
       /\ SubSeq(s, q, q + Len(suffix) - 1) = suffix

\* \s*SUFFIX matches from p, letters compared without case
EndingAt(s, p, suffix) ==
    LET q == SkipSpaces(s, p)
    IN /\ q + Len(suffix) - 1 <= Len(s)
       /\ Lower(SubSeq(s, q, q + Len(suffix) - 1)) = Lower(suffix)

\* the ways the pattern matches from position k: <<digits of \d{1,3}, repeats>>
MatchesAt(s, k, suffix) ==
    {c \in (1..3) \X (0..(Len(s) \div 4)) :
        /\ DigitsAt(s, k, c[1])
        /\ c[2] <= MaxGroups(s, k + c[1])
        /\ EndingAt(s, k + c[1] + 4 * c[2], suffix)}

\* the match the backtracking finds first: \d{1,3} as long as it can be,
\* then as many repeats as can be
FirstMatchAt(s, k, suffix) ==
    CHOOSE c \in MatchesAt(s, k, suffix) :
        \A o \in MatchesAt(s, k, suffix) :
            c[1] > o[1] \/ (c[1] = o[1] /\ c[2] >= o[2])

\* re.search: group(1) of the leftmost match, or no match
Search(s, suffix) ==
    LET starts == {k \in 1..Len(s) : MatchesAt(s, k, suffix) # {}}
    IN IF starts = {} THEN [found |-> FALSE, group |-> <<>>]
       ELSE LET k == CHOOSE x \in starts : \A y \in starts : x <= y
                c == FirstMatchAt(s, k, suffix)
            IN [found |-> TRUE, group |-> SubSeq(s, k, k + c[1] + 4 * c[2] - 1)]

\* RemoveBlanks leaving the text as it is
RemoveBlanksKept(s) == s

\* str.replace(' ', '')
RemoveBlanks(s) == SelectSeq(s, LAMBDA c : c # " ")

NoValue == [some |-> FALSE, v |-> 0]

RECURSIVE ExtractFrom(_, _)
\* the loop over patterns[k..]: the first pattern that matches and whose
\* group float() accepts decides; 'k' anywhere in the text multiplies by 1000
ExtractFrom(salary_text, k) ==
    IF k > Len(patterns) THEN NoValue
    ELSE LET match == Search(salary_text, patterns[k])
             value_str == RemoveBlanks(match.group)
         IN IF match.found /\ AllDigits(value_str)
            THEN [some |-> TRUE,
                  v |-> IF IsSubstr(<<"k">>, Lower(salary_text))
                        THEN DecimalValue(value_str) * 1000
                        ELSE DecimalValue(value_str)]
            ELSE ExtractFrom(salary_text, k + 1)

\* _extract_salary_value on a str
extract_salary_value(salary_text) ==
    IF salary_text = <<>> THEN NoValue ELSE ExtractFrom(salary_text, 1)

\* calculate_salary_score giving 0.7 from 80% of the minimum excluded
calculate_salary_score_above(P, job) ==
    LET min_salary == P.salaire_min
        job_salary == Get0(job.salaire)
    IN IF min_salary <= 0 THEN Returned(Tenths(P, 5))
       ELSE IF ~Truthy(job_salary) THEN Returned(Tenths(P, 3))
       ELSE IF job_salary.t # "str" THEN Raised
       ELSE LET salary_value == extract_salary_value(job_salary.s)
            IN IF ~salary_value.some THEN Returned(Tenths(P, 3))
               ELSE IF salary_value.v >= min_salary THEN Returned(Tenths(P, 10))
               ELSE IF 10 * salary_value.v > NearSalaryTenths * min_salary
                    THEN Returned(Tenths(P, 7))
               ELSE Returned(Tenths(P, 3))

\* _calculate_salary_score
calculate_salary_score(P, job) ==
    LET min_salary == P.salaire_min
        job_salary == Get0(job.salaire)
    IN IF min_salary <= 0 THEN Returned(Tenths(P, 5))
       ELSE IF ~Truthy(job_salary) THEN Returned(Tenths(P, 3))
       ELSE IF job_salary.t # "str" THEN Raised    \* re.search on a number
       ELSE LET salary_value == extract_salary_value(job_salary.s)
            IN IF ~salary_value.some THEN Returned(Tenths(P, 3))
               ELSE IF salary_value.v >= min_salary THEN Returned(Tenths(P, 10))
               ELSE IF 10 * salary_value.v >= NearSalaryTenths * min_salary
                    THEN Returned(Tenths(P, 7))
               ELSE Returned(Tenths(P, 3))

\* calculate_company_score returning the full score
calculate_company_score_full(P, job) == Returned(Tenths(P, 10))

\* _calculate_company_score: pour l'instant, score neutre
calculate_company_score(P, job) == Returned(Tenths(P, 5))

\* calculate_match_score with the keyword term subtracted (-= for +=)
calculate_match_score_minus(P, job) ==
    LET keyword_score == calculate_keyword_score(P, job)
        location_score == calculate_location_score(P, job)
        contract_score == calculate_contract_score(P, job)
        salary_score == calculate_salary_score(P, job)
        company_score == calculate_company_score(P, job)
        total_score == (location_score.v * weights.location
                        - keyword_score.v * weights.keywords
                        + contract_score.v * weights.contract_type
                        + salary_score.v * weights.salary
                        + company_score.v * weights.company_size) \div 100
    IN IF ~(keyword_score.ok /\ location_score.ok /\ contract_score.ok
            /\ salary_score.ok /\ company_score.ok)
       THEN Raised
       ELSE Returned(Min2(total_score, Unit(P)))

\* _calculate_match_score: the weighted sum, capped at 1.0; an exception of
\* a sub-score leaves the function
calculate_match_score(P, job) ==
    LET keyword_score == calculate_keyword_score(P, job)
        location_score == calculate_location_score(P, job)
        contract_score == calculate_contract_score(P, job)
        salary_score == calculate_salary_score(P, job)
        company_score == calculate_company_score(P, job)
        total_score == (keyword_score.v * weights.keywords
                        + location_score.v * weights.location
                        + contract_score.v * weights.contract_type
                        + salary_score.v * weights.salary
                        + company_score.v * weights.company_size) \div 100
    IN IF ~(keyword_score.ok /\ location_score.ok /\ contract_score.ok
            /\ salary_score.ok /\ company_score.ok)
       THEN Raised
       ELSE Returned(Min2(total_score, Unit(P)))

(***************************************************************************)
(* Recency                                                                 *)
(***************************************************************************)
\* the resolution of the clock: now is <<ordinal of the day, tick of the day>>
TicksPerDay == 4

\* FloorDays rounding a started day up
CeilDays(ticks) ==
    IF ticks >= 0 THEN (ticks + TicksPerDay - 1) \div TicksPerDay
    ELSE -((-ticks) \div TicksPerDay)

\* timedelta.days: the floor of the difference in days
FloorDays(ticks) ==
    IF ticks >= 0 THEN ticks \div TicksPerDay
    ELSE -((-ticks + TicksPerDay - 1) \div TicksPerDay)

\* _is_job_recent at time t: TRUE/FALSE returned, or an exception other
\* than ValueError (strptime of a value that is no str) leaves the function
is_job_recent(job, t) ==
    LET pub_date_str == Get0(job.date_publication)
    IN IF ~Truthy(pub_date_str) THEN Returned(TRUE)
       ELSE IF pub_date_str.t # "str" THEN [ok |-> FALSE, v |-> FALSE]
       ELSE LET pub_date == Strptime(pub_date_str.s)
            IN IF ~pub_date.ok THEN Returned(TRUE)       \* except ValueError
               ELSE LET days_diff ==
                          FloorDays((t[1] - Ordinal(pub_date.y, pub_date.m, pub_date.d))
                                    * TicksPerDay + t[2])
                    IN Returned(days_diff <= MaxAgeDays)

(***************************************************************************)
(* Gates                                                                   *)
(***************************************************************************)
\* has_required_keywords reading the scoring keywords for the mandatory ones
has_required_keywords_stack(P, job) ==
    LET required_keywords == P.stack_technique
    IN IF required_keywords = <<>> THEN TRUE
       ELSE \E k \in 1..Len(required_keywords) :
               IsSubstr(Lower(required_keywords[k]), JobText(job))

has_required_keywords(P, job) ==
    LET required_keywords == P.mots_cles
    IN IF required_keywords = <<>> THEN TRUE
       ELSE \E k \in 1..Len(required_keywords) :
               IsSubstr(Lower(required_keywords[k]), JobText(job))

\* HasRemote comparing with the case as written
HasRemoteCased(preferred_locations) ==
    \E k \in 1..Len(preferred_locations) :
        IsSubstr(<<"r", "e", "m", "o", "t", "e">>, preferred_locations[k])

\* any('remote' in loc.lower() for loc in preferred_locations)
HasRemote(preferred_locations) ==
    \E k \in 1..Len(preferred_locations) :
        IsSubstr(<<"r", "e", "m", "o", "t", "e">>, Lower(preferred_locations[k]))

\* meets_location_requirement rejecting a listing without location text
meets_location_requirement_notext(P, job) ==
    LET preferred_locations == P.localisation
        loc == Get(job.localisation, PyStr(<<>>))
    IN IF preferred_locations = <<>> THEN Returned(TRUE)
       ELSE IF HasRemote(preferred_locations) THEN Returned(TRUE)
       ELSE IF loc.t # "str" THEN [ok |-> FALSE, v |-> FALSE]
       ELSE IF loc.s = <<>> THEN Returned(FALSE)
       ELSE Returned(\E k \in 1..Len(preferred_locations) :
                        IsSubstr(Lower(preferred_locations[k]), Lower(loc.s)))

\* meets_location_requirement accepting a fuzzy match, as the location score does
meets_location_requirement_fuzzy(P, job) ==
    LET preferred_locations == P.localisation
        loc == Get(job.localisation, PyStr(<<>>))
    IN IF preferred_locations = <<>> THEN Returned(TRUE)
       ELSE IF HasRemote(preferred_locations) THEN Returned(TRUE)
       ELSE IF loc.t # "str" THEN [ok |-> FALSE, v |-> FALSE]
       ELSE IF loc.s = <<>> THEN Returned(TRUE)
       ELSE Returned(\E k \in 1..Len(preferred_locations) :
                        \/ IsSubstr(Lower(preferred_locations[k]), Lower(loc.s))
                        \/ fuzzy_match(Lower(preferred_locations[k]), Lower(loc.s)))

\* _meets_location_requirement; ok = FALSE when .lower() raises
meets_location_requirement(P, job) ==
    LET preferred_locations == P.localisation
        loc == Get(job.localisation, PyStr(<<>>))
    IN IF preferred_locations = <<>> THEN Returned(TRUE)
       ELSE IF HasRemote(preferred_locations) THEN Returned(TRUE)
       ELSE IF loc.t # "str" THEN [ok |-> FALSE, v |-> FALSE]
       ELSE IF loc.s = <<>> THEN Returned(TRUE)
       ELSE Returned(\E k \in 1..Len(preferred_locations) :
                        IsSubstr(Lower(preferred_locations[k]), Lower(loc.s)))

(***************************************************************************)
(* filter_jobs.  The listings are dictionaries held by reference: jobs is  *)
(* the argument, a list of references, heap the dictionaries, input the    *)
(* dictionaries as they were at the call.                                  *)
(***************************************************************************)
\* x.get('match_score', 0)
ScoreOf(h, r) == Get(h[r].match_score, PyInt(0)).n

Front(s) == SubSeq(s, 1, Len(s) - 1)

\* InsertStable putting r before the elements of equal key
InsertBeforeEqual(sorted, r, h) ==
    LET k == Cardinality({x \in 1..Len(sorted) : ScoreOf(h, sorted[x]) > ScoreOf(h, r)})
    IN SubSeq(sorted, 1, k) \o <<r>> \o SubSeq(sorted, k + 1, Len(sorted))

\* where list.sort(reverse=True) puts r in a list already sorted: behind
\* every element whose key is not smaller (the sort is stable)
InsertStable(sorted, r, h) ==
    LET k == Cardinality({x \in 1..Len(sorted) : ScoreOf(h, sorted[x]) >= ScoreOf(h, r)})
    IN SubSeq(sorted, 1, k) \o <<r>> \o SubSeq(sorted, k + 1, Len(sorted))

RECURSIVE SortByScoreDescUnstable(_, _)
\* SortByScoreDesc putting a listing before those of equal score
SortByScoreDescUnstable(s, h) ==
    IF s = <<>> THEN <<>>
    ELSE InsertBeforeEqual(SortByScoreDescUnstable(Front(s), h), s[Len(s)], h)

RECURSIVE SortByScoreDesc(_, _)
\* scored_jobs.sort(key=lambda x: x.get('match_score', 0), reverse=True)
SortByScoreDesc(s, h) ==
    IF s = <<>> THEN <<>>
    ELSE InsertStable(SortByScoreDesc(Front(s), h), s[Len(s)], h)

\* lines 41-44: an empty batch returns [] at once
Call ==
    /\ pc = "call"
    /\ IF jobs = <<>>
       THEN pc' = "returned" /\ result' = <<>>
       ELSE pc' = "recency" /\ result' = result
    /\ UNCHANGED <<calls, results, prepared, preferences, now, jobs, heap, input, i,
                   recent_jobs, scored_jobs, filtered_jobs, exc>>

\* RecencyStep keeping every listing whose date it can read
RecencyStepKeepAll ==
    /\ pc = "recency"
    /\ i <= Len(jobs)
    /\ LET recent == is_job_recent(heap[jobs[i]], now)
       IN IF ~recent.ok
          THEN /\ pc' = "raised"
               /\ exc' = "TypeError"
               /\ UNCHANGED <<i, recent_jobs>>
          ELSE /\ recent_jobs' = Append(recent_jobs, jobs[i])
               /\ i' = IF i = Len(jobs) THEN 1 ELSE i + 1
               /\ pc' = IF i = Len(jobs) THEN "scoring" ELSE pc
               /\ exc' = exc
    /\ UNCHANGED <<calls, results, prepared, preferences, now, jobs, heap, input,
                   scored_jobs, filtered_jobs, result>>

\* lines 46-50: one turn of the recency loop, which has no try
RecencyStep ==
    /\ pc = "recency"
    /\ i <= Len(jobs)
    /\ LET recent == is_job_recent(heap[jobs[i]], now)
       IN IF ~recent.ok
          THEN /\ pc' = "raised"
               /\ exc' = "TypeError"
               /\ UNCHANGED <<i, recent_jobs>>
          ELSE /\ recent_jobs' = IF recent.v THEN Append(recent_jobs, jobs[i])
                                 ELSE recent_jobs
               /\ i' = IF i = Len(jobs) THEN 1 ELSE i + 1
               /\ pc' = IF i = Len(jobs) THEN "scoring" ELSE pc
               /\ exc' = exc
    /\ UNCHANGED <<calls, results, prepared, preferences, now, jobs, heap, input,
                   scored_jobs, filtered_jobs, result>>

\* ScoreStep keeping every listing it can score, whatever the score
ScoreStepKeepAll ==
    /\ pc = "scoring"
    /\ i <= Len(recent_jobs)
    /\ LET job == recent_jobs[i]
           score == calculate_match_score(preferences, heap[job])
       IN IF score.ok
          THEN /\ heap' = [heap EXCEPT ![job].match_score = PyFloat(score.v)]
               /\ scored_jobs' = Append(scored_jobs, job)
          ELSE UNCHANGED <<heap, scored_jobs>>
    /\ i' = i + 1
    /\ UNCHANGED <<calls, results, prepared, preferences, now, jobs, input, pc,
                   recent_jobs, filtered_jobs, result, exc>>

\* ScoreStep with a strict threshold (score > 0.6)
ScoreStepStrict ==
    /\ pc = "scoring"
    /\ i <= Len(recent_jobs)
    /\ LET job == recent_jobs[i]
           score == calculate_match_score(preferences, heap[job])
       IN IF score.ok /\ score.v > Tenths(preferences, MinScoreTenths)
          THEN /\ heap' = [heap EXCEPT ![job].match_score = PyFloat(score.v)]
               /\ scored_jobs' = Append(scored_jobs, job)
          ELSE UNCHANGED <<heap, scored_jobs>>
    /\ i' = i + 1
    /\ UNCHANGED <<calls, results, prepared, preferences, now, jobs, input, pc,
                   recent_jobs, filtered_jobs, result, exc>>

\* ScoreStep writing match_score before it tests the threshold
ScoreStepAlways ==
    /\ pc = "scoring"
    /\ i <= Len(recent_jobs)
    /\ LET job == recent_jobs[i]
           score == calculate_match_score(preferences, heap[job])
       IN /\ heap' = IF score.ok
                     THEN [heap EXCEPT ![job].match_score = PyFloat(score.v)]
                     ELSE heap
          /\ scored_jobs' = IF score.ok /\ score.v >= Tenths(preferences, MinScoreTenths)
                            THEN Append(scored_jobs, job)
                            ELSE scored_jobs
    /\ i' = i + 1
    /\ UNCHANGED <<calls, results, prepared, preferences, now, jobs, input, pc,
                   recent_jobs, filtered_jobs, result, exc>>

\* lines 54-68: one turn of the scoring loop; an exception of the scoring
\* is caught and the listing skipped
ScoreStep ==
    /\ pc = "scoring"
    /\ i <= Len(recent_jobs)
    /\ LET job == recent_jobs[i]
           score == calculate_match_score(preferences, heap[job])
       IN IF score.ok /\ score.v >= Tenths(preferences, MinScoreTenths)
          THEN /\ heap' = [heap EXCEPT ![job].match_score = PyFloat(score.v)]
               /\ scored_jobs' = Append(scored_jobs, job)
          ELSE UNCHANGED <<heap, scored_jobs>>
    /\ i' = i + 1
    /\ UNCHANGED <<calls, results, prepared, preferences, now, jobs, input, pc,
                   recent_jobs, filtered_jobs, result, exc>>

\* lines 70-71: the sort, once the scoring loop is over
SortStep ==
    /\ pc = "scoring"
    /\ i > Len(recent_jobs)
    /\ scored_jobs' = SortByScoreDesc(scored_jobs, heap)
    /\ pc' = "gate"
    /\ i' = 1
    /\ UNCHANGED <<calls, results, prepared, preferences, now, jobs, heap, input,
                   recent_jobs, filtered_jobs, result, exc>>

\* GateStep without the location requirement
GateStepKeywordsOnly ==
    /\ pc = "gate"
    /\ i <= Len(scored_jobs)
    /\ LET job == scored_jobs[i]
       IN IF ScoreOf(heap, job) < Tenths(preferences, SafetyFloorTenths)
          THEN UNCHANGED <<filtered_jobs, pc, exc>> /\ i' = i + 1
          ELSE /\ filtered_jobs' = IF has_required_keywords(preferences, heap[job])
                                   THEN Append(filtered_jobs, job)
                                   ELSE filtered_jobs
               /\ i' = i + 1
               /\ UNCHANGED <<pc, exc>>
    /\ UNCHANGED <<calls, results, prepared, preferences, now, jobs, heap, input,
                   recent_jobs, scored_jobs, result>>

\* _apply_strict_filters, lines 256-269: one turn of its loop, no try
GateStep ==
    /\ pc = "gate"
    /\ i <= Len(scored_jobs)
    /\ LET job == scored_jobs[i]
           located == meets_location_requirement(preferences, heap[job])
       IN IF ScoreOf(heap, job) < Tenths(preferences, SafetyFloorTenths)
          THEN UNCHANGED <<filtered_jobs, pc, exc>> /\ i' = i + 1
          ELSE IF ~has_required_keywords(preferences, heap[job])
          THEN UNCHANGED <<filtered_jobs, pc, exc>> /\ i' = i + 1
          ELSE IF ~located.ok
          THEN pc' = "raised" /\ exc' = "AttributeError" /\ UNCHANGED <<filtered_jobs, i>>
          ELSE /\ filtered_jobs' = IF located.v THEN Append(filtered_jobs, job)
                                   ELSE filtered_jobs
               /\ i' = i + 1
               /\ UNCHANGED <<pc, exc>>
    /\ UNCHANGED <<calls, results, prepared, preferences, now, jobs, heap, input,
                   recent_jobs, scored_jobs, result>>

\* lines 74-77: filter_jobs returns the list of _apply_strict_filters
Return ==
    /\ pc = "gate"
    /\ i > Len(scored_jobs)
    /\ result' = filtered_jobs
    /\ pc' = "returned"
    /\ UNCHANGED <<calls, results, prepared, preferences, now, jobs, heap, input, i,
                   recent_jobs, scored_jobs, filtered_jobs, exc>>

Next == Call \/ RecencyStep \/ ScoreStep \/ SortStep \/ GateStep \/ Return

(***************************************************************************)
(* Inputs                                                                  *)
(***************************************************************************)
\* the longest batch
MaxJobs == 2

wPython == <<"P", "y", "t", "h", "o", "n">>

wJava == <<"J", "a", "v", "a">>

wDjango == <<"D", "j", "a", "n", "g", "o">>

wParis == <<"P", "a", "r", "i", "s">>

wLyon == <<"L", "y", "o", "n">>

wRemote == <<"F", "u", "l", "l", " ", "R", "e", "m", "o", "t", "e">>

wCDI == <<"C", "D", "I">>

Job(titre, description, localisation, type_contrat, salaire, date_publication) ==
    [titre |-> titre, description |-> description, localisation |-> localisation,
     type_contrat |-> type_contrat, salaire |-> salaire,
     date_publication |-> date_publication, match_score |-> Absent]

Preferences(stack_technique, localisation, type_contrat, salaire_min, mots_cles) ==
    [stack_technique |-> stack_technique, localisation |-> localisation,
     type_contrat |-> type_contrat, salaire_min |-> salaire_min,
     mots_cles |-> mots_cles]

\* auto_candidature_manager.py lines 52-59: the summary of a call of
\* process_jobs_automatically
NewResults(total) ==
    [total_jobs |-> total, filtered_jobs |-> 0, candidatures_sent |-> 0,
     emails_sent |-> 0, errors |-> <<>>, candidatures_details |-> <<>>]

\* the state at the call of filter_jobs(batch) with preferences P at time t;
\* no call of the application manager is under way
Start(P, t, batch) ==
    /\ preferences = P
    /\ now = t
    /\ jobs = [k \in 1..Len(batch) |-> k]
    /\ heap = batch
    /\ input = batch
    /\ pc = "call"
    /\ i = 1
    /\ recent_jobs = <<>>
    /\ scored_jobs = <<>>
    /\ filtered_jobs = <<>>
    /\ result = <<>>
    /\ exc = "none"
    /\ results = NewResults(0)
    /\ prepared = <<>>
    /\ calls = 1

Batches(J) == UNION {[1..n -> J] : n \in 0..MaxJobs}

\* 2024-03-10, second tick of the day
BatchNow == <<Ordinal(2024, 3, 10), 1>>

BatchJobs ==
    {Job(PyStr(ti), Absent, lo, PyStr(wCDI), Absent, da) :
        ti \in {<<"D", "e", "v", " ">> \o wPython, <<"D", "e", "v", " ">> \o wJava,
                wJava \o <<" ">> \o wPython},
        lo \in {Absent, PyStr(wParis), PyStr(wLyon)},
        da \in {Absent, PyStr(Strftime(2024, 3, 1))}}
    \cup {Job(PyStr(wPython), Absent, PyNone, PyStr(wCDI), Absent, Absent),
          Job(PyStr(wPython), Absent, PyStr(wParis), PyStr(wCDI), Absent, PyInt(20240309))}

BatchPreferences ==
    {Preferences(<<Lower(wPython)>>, lo, <<>>, 0, mc) :
        lo \in {<<>>, <<wParis>>, <<wParis, wRemote>>},
        mc \in {<<>>, <<Lower(wJava)>>}}

Init ==
    \E P \in BatchPreferences, batch \in Batches(BatchJobs) : Start(P, BatchNow, batch)

Spec == Init /\ [][Next]_vars

(***************************************************************************)
(* filter_jobs called again on the list it returned, with the same         *)
(* preferences and at the same time; calls counts the calls, input is the  *)
(* dictionaries as they were at the latest call                            *)
(***************************************************************************)
\* the most calls in a row
MaxCalls == 2

\* filter_jobs(result): the argument is the list of the previous return
CallAgain ==
    /\ pc = "returned"
    /\ calls < MaxCalls
    /\ calls' = calls + 1
    /\ jobs' = result
    /\ input' = heap
    /\ pc' = "call"
    /\ i' = 1
    /\ recent_jobs' = <<>>
    /\ scored_jobs' = <<>>
    /\ filtered_jobs' = <<>>
    /\ result' = <<>>
    /\ UNCHANGED <<preferences, now, heap, exc, results, prepared>>

NextAgain ==
    Call \/ RecencyStep \/ ScoreStep \/ SortStep \/ GateStep \/ Return \/ CallAgain

SpecAgain == Init /\ [][NextAgain]_vars

(***************************************************************************)
(* Single listings over a wider vocabulary, for the scoring and the gates  *)
(***************************************************************************)
wPariis == <<"P", "a", "r", "i", "i", "s">>

wStage == <<"S", "t", "a", "g", "e">>

ScoringJobs ==
    {Job(PyStr(ti), de, lo, co, sa, Absent) :
        ti \in {wPython, wJava},
        de \in {Absent, PyStr(wDjango)},
        lo \in {Absent, PyStr(wParis), PyStr(<<"P", "A", "R", "I", "S", " ", "1", "5">>),
                PyStr(wLyon), PyStr(wPariis), PyNone},
        co \in {Absent, PyStr(wCDI), PyStr(wStage)},
        sa \in {Absent, PyStr(<<"4", "5", "K">>),
                PyStr(<<"3", "5", " ", "0", "0", "0", " ", Euro>>),
                PyStr(<<"c", "o", "m", "p", "e", "t", "i", "t", "i", "v", "e">>),
                PyInt(45000)}}

ScoringPreferences ==
    {Preferences(st, lo, co, sm, mc) :
        st \in {<<>>, <<Lower(wPython)>>, <<wPython, wDjango>>},
        lo \in {<<>>, <<wParis>>, <<wParis, wRemote>>},
        co \in {<<>>, <<Lower(wCDI)>>},
        sm \in {0, 40000},
        mc \in {<<>>, <<Lower(wJava)>>}}

InitScoring ==
    \E P \in ScoringPreferences, job \in ScoringJobs : Start(P, BatchNow, <<job>>)

SpecScoring == InitScoring /\ [][Next]_vars

(***************************************************************************)
(* Single listings over dates and clocks, for the recency filter           *)
(***************************************************************************)
\* how many days before (and one day after) the clock the dates go
MaxDaysBack == 9

\* date.fromordinal, for the days of 2023 and 2024
FromOrdinal(o) ==
    CHOOSE c \in {2023, 2024} \X (1..12) \X (1..31) :
        c[3] <= DaysInMonth(c[1], c[2]) /\ Ordinal(c[1], c[2], c[3]) = o

Clocks ==
    {Ordinal(2024, 3, 1), Ordinal(2024, 3, 8), Ordinal(2024, 1, 5)}
    \X (0..(TicksPerDay - 1))

DatesAround(t) ==
    UNION {LET c == FromOrdinal(t[1] - k)
           IN {PyStr(Strftime(c[1], c[2], c[3])), PyStr(StrftimeNoPad(c[1], c[2], c[3]))} :
           k \in (-1)..MaxDaysBack}

OtherDates ==
    {Absent, PyNone, PyStr(<<>>), PyInt(0), PyInt(20240301),
     PyStr(<<"2", "0", "2", "4", "-", "0", "2", "-", "3", "0">>),
     PyStr(<<"2", "0", "2", "4", "/", "0", "3", "/", "0", "1">>),
     PyStr(Strftime(2024, 3, 1) \o <<"T", "1", "0", ":", "0", "0">>),
     PyStr(<<"h", "i", "e", "r">>)}

InitRecency ==
    \E t \in Clocks :
       \E da \in DatesAround(t) \cup OtherDates :
          Start(Preferences(<<wPython>>, <<wParis>>, <<>>, 0, <<>>), t,
                <<Job(PyStr(wPython), Absent, PyStr(wParis), PyStr(wCDI), Absent, da)>>)

SpecRecency == InitRecency /\ [][Next]_vars

(***************************************************************************)
(* Single listings over salary texts and minimum salaries, for the salary  *)
(* extraction and the salary sub-score                                     *)
(***************************************************************************)
RECURSIVE Grouped(_)
\* the digits d written in groups of three parted by a space: 45 000
Grouped(d) ==
    IF Len(d) <= 3 THEN d
    ELSE Grouped(SubSeq(d, 1, Len(d) - 3)) \o <<" ">> \o SubSeq(d, Len(d) - 2, Len(d))

\* annual amounts around a minimum of 40000 and around its 80%
SalaryAmounts == {45000, 40000, 39999, 32000, 31999, 28000}

\* amounts in thousands, of one to three digits, as written before K
SalaryThousands == {9, 31, 32, 40, 45, 120}

\* the currency endings: the symbol and the code, glued or after a space
CurrencyEndings == {<<Euro>>, <<" ", Euro>>, <<"E", "U", "R">>, <<" ", "E", "U", "R">>}

wCompetitive == <<"c", "o", "m", "p", "e", "t", "i", "t", "i", "v", "e">>

\* 45000€ - 55000€, the notation of create_recent_jobs
wSalaryRange ==
    <<"4", "5", "0", "0", "0", Euro, " ", "-", " ", "5", "5", "0", "0", "0", Euro>>

SalaryTexts ==
    {DecimalDigits(n) \o e : n \in SalaryAmounts, e \in CurrencyEndings}
    \cup {Grouped(DecimalDigits(n)) \o e : n \in SalaryAmounts, e \in CurrencyEndings}
    \cup {DecimalDigits(n) \o <<c>> : n \in SalaryThousands, c \in {"K", "k"}}
    \cup {DecimalDigits(n) \o <<"k", Euro>> : n \in SalaryThousands}
    \cup {wCompetitive, wSalaryRange, DecimalDigits(45000)}

SalaryJobs ==
    {Job(PyStr(wPython), Absent, PyStr(wParis), PyStr(wCDI), sa, Absent) :
        sa \in {PyStr(s) : s \in SalaryTexts}
               \cup {Absent, PyNone, PyStr(<<>>), PyInt(45000)}}

SalaryPreferences ==
    {Preferences(<<wPython>>, <<wParis>>, <<wCDI>>, sm, <<>>) : sm \in {-1, 0, 40000}}

InitSalary ==
    \E P \in SalaryPreferences, job \in SalaryJobs : Start(P, BatchNow, <<job>>)

SpecSalary == InitSalary /\ [][Next]_vars

(***************************************************************************)
(* Single listings over location texts and preferred locations, for the    *)
(* location sub-score                                                      *)
(***************************************************************************)
\* the text s with the character c put in after its first p characters
InsertAt(s, p, c) == SubSeq(s, 1, p) \o <<c>> \o SubSeq(s, p + 1, Len(s))

\* the characters a typo puts in
TypoChars == {"i", "x", "A"}

\* the word w with one character put in between two of its characters
Typos(w) == {InsertAt(w, p, c) : p \in 1..(Len(w) - 1), c \in TypoChars}

wMarseille == <<"M", "a", "r", "s", "e", "i", "l", "l", "e">>

LocationTexts ==
    {wParis, Lower(wParis), <<"P", "A", "R", "I", "S", " ", "1", "5">>,
     <<"P", "a", "r", "i">>, wLyon, wLyon \o <<"s">>, wMarseille}
    \cup Typos(wParis) \cup Typos(wLyon)

LocationJobs ==
    {Job(PyStr(wPython), Absent, lo, PyStr(wCDI), Absent, Absent) :
        lo \in {PyStr(s) : s \in LocationTexts} \cup {Absent, PyStr(<<>>), PyNone}}

LocationPreferences ==
    {Preferences(<<wPython>>, lo, <<wCDI>>, 0, <<>>) :
        lo \in {<<>>, <<wParis>>, <<wLyon>>, <<wPariis, wParis>>,
                <<wLyon, Lower(wParis)>>, <<wParis, wRemote>>}}

InitLocation ==
    \E P \in LocationPreferences, job \in LocationJobs : Start(P, BatchNow, <<job>>)

SpecLocation == InitLocation /\ [][Next]_vars

(***************************************************************************)
(* Single listings over scoring keywords, with and without duplicates, for *)
(* the keyword sub-score                                                   *)
(***************************************************************************)
KeywordJobs ==
    {Job(PyStr(ti), de, PyStr(wParis), PyStr(wCDI), Absent, Absent) :
        ti \in {wPython, wJava, <<"D", "e", "v">>,
                <<"P", "Y", "T", "H", "O", "N", " ", "/", " ">> \o wJava},
        de \in {Absent, PyStr(wDjango), PyStr(Lower(wPython))}}

KeywordPreferences ==
    {Preferences(st, <<wParis>>, <<wCDI>>, 0, <<>>) :
        st \in {<<>>, <<Lower(wPython)>>, <<wPython, wDjango>>,
                <<Lower(wPython), wPython>>, <<wPython, wJava, Lower(wPython)>>,
                <<wJava, wDjango, wJava, wPython>>}}

InitKeywords ==
    \E P \in KeywordPreferences, job \in KeywordJobs : Start(P, BatchNow, <<job>>)

SpecKeywords == InitKeywords /\ [][Next]_vars

(***************************************************************************)
(* Single listings over contract types and preferred contract types, for   *)
(* the contract sub-score                                                  *)
(***************************************************************************)
wCDD == <<"C", "D", "D">>

wFreelance == <<"F", "r", "e", "e", "l", "a", "n", "c", "e">>

ContractTexts ==
    {wCDI, Lower(wCDI), wCDI \o <<" ", "/", " ">> \o wCDD, wStage, wFreelance}

ContractJobs ==
    {Job(PyStr(wPython), Absent, PyStr(wParis), co, Absent, Absent) :
        co \in {PyStr(s) : s \in ContractTexts} \cup {Absent, PyStr(<<>>), PyNone}}

ContractPreferences ==
    {Preferences(<<wPython>>, <<wParis>>, co, 0, <<>>) :
        co \in {<<>>, <<wCDI>>, <<Lower(wCDI)>>, <<wStage, Lower(wCDD)>>,
                <<wFreelance, wCDI>>}}

InitContract ==
    \E P \in ContractPreferences, job \in ContractJobs : Start(P, BatchNow, <<job>>)

SpecContract == InitContract /\ [][Next]_vars

(***************************************************************************)
(* Single listings and preferences written in several letter cases, for    *)
(* the comparisons of texts                                                *)
(***************************************************************************)
CaseJobs ==
    {Job(PyStr(ti), PyStr(wDjango), lo, PyStr(co), sa, Absent) :
        ti \in {wPython, <<"P", "Y", "T", "H", "O", "N", " ", "/", " ">> \o wJava},
        lo \in {Absent, PyStr(wParis), PyStr(<<"P", "A", "R", "I", "S", " ", "1", "5">>),
                PyStr(wPariis)},
        co \in {wCDI, Lower(wCDI)},
        sa \in {Absent, PyStr(<<"4", "5", "K">>), PyStr(<<"4", "5", "k">>),
                PyStr(<<"4", "5", " ", "0", "0", "0", " ", "e", "u", "r">>)}}

CasePreferences ==
    {Preferences(st, lo, <<Lower(wCDI)>>, sm, mc) :
        st \in {<<Lower(wPython)>>, <<wPython, wDjango>>},
        lo \in {<<wParis>>, <<Lower(wParis), wRemote>>, <<wLyon>>},
        sm \in {0, 40000},
        mc \in {<<>>, <<<<"J", "A", "V", "A">>>>}}

InitCase ==
    \E P \in CasePreferences, job \in CaseJobs : Start(P, BatchNow, <<job>>)

SpecCase == InitCase /\ [][Next]_vars

(***************************************************************************)
(* Salary texts that several patterns match, that hold a k outside the     *)
(* amount, or whose amount is parted by a tabulation                       *)
(***************************************************************************)
w45 == <<"4", "5">>

w45000 == <<"4", "5", " ", "0", "0", "0">>

w45Tab000 == <<"4", "5", "\t", "0", "0", "0">>

wEUR == <<"E", "U", "R">>

PatternTexts ==
    {w45000 \o <<" ", Euro>>,
     w45000 \o <<" ">> \o wEUR,
     w45 \o <<" ", "k", Euro>>,
     w45 \o <<"K">>,
     w45 \o <<" ">> \o Lower(wEUR),
     w45 \o <<" ">> \o wEUR \o <<" ", "5", "0", " ", Euro>>,
     w45 \o <<" ">> \o wEUR \o <<" ", "5", "0", " ", "K">>,
     <<"5", "0", "K", " ">> \o w45000 \o <<" ", Euro>>,
     w45000 \o <<" ", Euro, " ", "o", "k">>,
     <<"P", "a", "c", "k", "a", "g", "e", " ">> \o w45000 \o <<" ">> \o wEUR,
     w45Tab000 \o <<" ", Euro>>,
     w45Tab000 \o <<" ", Euro, " ", "5", "0", "K">>,
     wCompetitive}

PatternJobs ==
    {Job(PyStr(wPython), Absent, PyStr(wParis), PyStr(wCDI), PyStr(s), Absent) :
        s \in PatternTexts}

InitPatterns ==
    \E P \in SalaryPreferences, job \in PatternJobs : Start(P, BatchNow, <<job>>)

SpecPatterns == InitPatterns /\ [][Next]_vars

(***************************************************************************)
(* Batches for preferences with nothing configured, next to configured     *)
(* ones; the dates are missing, recent, or a number                        *)
(***************************************************************************)
NeutralJobs ==
    {Job(PyStr(wPython), Absent, lo, PyStr(wCDI), sa, da) :
        lo \in {PyStr(wParis), PyNone},
        sa \in {Absent, PyStr(<<"4", "5", "K">>)},
        da \in {Absent, PyStr(Strftime(2024, 3, 9)), PyInt(20240309)}}

NeutralPreferences ==
    {Preferences(<<>>, <<>>, <<>>, 0, mc) : mc \in {<<>>, <<Lower(wJava)>>}}
    \cup {Preferences(<<Lower(wPython)>>, <<>>, <<Lower(wCDI)>>, 0, <<>>)}

InitNeutral ==
    \E P \in NeutralPreferences, batch \in Batches(NeutralJobs) : Start(P, BatchNow, batch)

SpecNeutral == InitNeutral /\ [][Next]_vars

(***************************************************************************)
(* AutoCandidatureManager.process_jobs_automatically                       *)
(* (src/auto_candidature_manager.py).  The letter generator, the           *)
(* application manager and the notifier are the environment: every turn of *)
(* the loop draws what they answer.  prepared lists the listings handed to *)
(* candidature_manager.prepare_application, in the order of the calls;     *)
(* filtered_jobs is the local list of the same name.  An error message is  *)
(* held as its kind and the listing it names.                              *)
(***************************************************************************)
\* self.min_score = 0.6, in tenths
min_score_tenths == 6

\* self.max_candidatures_per_cycle
max_candidatures_per_cycle == 10

RECURSIVE filter_high_score_jobs_default_one(_, _, _)
\* filter_high_score_jobs reading a missing match_score as 1
filter_high_score_jobs_default_one(P, js, h) ==
    IF js = <<>> THEN Returned(<<>>)
    ELSE LET job == js[Len(js)]
             before == filter_high_score_jobs_default_one(P, Front(js), h)
             score == Get(h[job].match_score, PyFloat(Unit(P)))
         IN IF ~before.ok \/ score.t \notin {"int", "float"} THEN Raised
            ELSE IF score.n >= Tenths(P, min_score_tenths)
            THEN Returned(Append(before.v, job))
            ELSE before

RECURSIVE filter_high_score_jobs(_, _, _)
\* _filter_high_score_jobs: the listings of js with match_score >= min_score,
\* in the order of js; comparing None or a string with 0.6 raises TypeError
filter_high_score_jobs(P, js, h) ==
    IF js = <<>> THEN Returned(<<>>)
    ELSE LET job == js[Len(js)]
             before == filter_high_score_jobs(P, Front(js), h)
             score == Get(h[job].match_score, PyInt(0))
         IN IF ~before.ok \/ score.t \notin {"int", "float"} THEN Raised
            ELSE IF score.n >= Tenths(P, min_score_tenths)
            THEN Returned(Append(before.v, job))
            ELSE before

\* results['errors'].append(...)
WithError(r, kind, job) ==
    [r EXCEPT !.errors = Append(@, [kind |-> kind, job |-> job])]

\* lines 50-80: the summary, the filter, the sort and the limit; an exception
\* of the filter is caught by the outer try (lines 148-152)
ProcessCall ==
    /\ pc = "process"
    /\ LET high == filter_high_score_jobs(preferences, jobs, heap)
           sorted == SortByScoreDesc(high.v, heap)
       IN IF ~high.ok
          THEN /\ results' = WithError(NewResults(Len(jobs)), "traitement", 0)
               /\ pc' = "processed"
               /\ UNCHANGED filtered_jobs
          ELSE IF high.v = <<>>
          THEN /\ results' = NewResults(Len(jobs))
               /\ pc' = "processed"
               /\ UNCHANGED filtered_jobs
          ELSE /\ results' = [NewResults(Len(jobs)) EXCEPT !.filtered_jobs = Len(high.v)]
               /\ filtered_jobs' = IF Len(sorted) > max_candidatures_per_cycle
                                   THEN SubSeq(sorted, 1, max_candidatures_per_cycle)
                                   ELSE sorted
               /\ pc' = "handling"
    /\ i' = 1
    /\ UNCHANGED <<preferences, now, jobs, heap, input,
                   recent_jobs, scored_jobs, result, exc, prepared, calls>>

\* what the collaborators answer in one turn of the loop: the letter (the
\* generator and its fallback may both raise), prepare_application,
\* _submit_application_automated, _send_confirmation_email
Outcomes == {"no_letter", "not_prepared", "not_sent", "sent_no_email", "sent"}

\* the turns that did not end with an application and its confirmation
Failures(r) ==
    Len(r.errors)
    + Cardinality({k \in 1..Len(r.candidatures_details) :
                      ~r.candidatures_details[k].email_confirmation})

\* the most turns of one call in which a collaborator fails
MaxFailures == 1

\* the text the generator returns
wLetter == <<"l", "e", "t", "t", "r", "e">>

\* lines 82-133: one turn of the loop over filtered_jobs
HandleStep ==
    /\ pc = "handling"
    /\ i <= Len(filtered_jobs)
    /\ \E outcome \in Outcomes :
          LET job == filtered_jobs[i]
              detail(email) == [entreprise |-> job, score |-> Get0(heap[job].match_score),
                                email_confirmation |-> email]
          IN /\ outcome # "sent" => Failures(results) < MaxFailures
             /\ IF outcome = "no_letter"
                THEN UNCHANGED <<heap, prepared>>
                ELSE /\ heap' = [heap EXCEPT ![job].lettre_motivation = PyStr(wLetter)]
                     /\ prepared' = Append(prepared, job)
             /\ results' =
                   CASE outcome = "no_letter" -> WithError(results, "erreur", job)
                     [] outcome = "not_prepared" -> WithError(results, "preparation", job)
                     [] outcome = "not_sent" -> WithError(results, "envoi", job)
                     [] outcome = "sent_no_email" ->
                           [results EXCEPT !.candidatures_sent = @ + 1,
                                           !.candidatures_details = Append(@, detail(FALSE))]
                     [] outcome = "sent" ->
                           [results EXCEPT !.candidatures_sent = @ + 1,
                                           !.emails_sent = @ + 1,
                                           !.candidatures_details = Append(@, detail(TRUE))]
    /\ i' = i + 1
    /\ UNCHANGED <<preferences, now, jobs, input, pc,
                   recent_jobs, scored_jobs, filtered_jobs, result, exc, calls>>

\* lines 135-146: the loop is over, the summary is returned
ProcessReturn ==
    /\ pc = "handling"
    /\ i > Len(filtered_jobs)
    /\ pc' = "processed"
    /\ UNCHANGED <<preferences, now, jobs, heap, input, i, recent_jobs,
                   scored_jobs, filtered_jobs, result, exc, results, prepared,
                   calls>>

NextProcess == ProcessCall \/ HandleStep \/ ProcessReturn

\* the longest batch handed to process_jobs_automatically
MaxAutoJobs == 12

\* a listing as process_jobs_automatically reads it
AutoJob(match_score) == [match_score |-> match_score, lettre_motivation |-> Absent]

AutoPreferences == Preferences(<<Lower(wPython)>>, <<>>, <<>>, 0, <<>>)

\* the score x/1000
Thousandths(P, x) == x * (Unit(P) \div 1000)

\* scores of the accepted range, not in order, with ties in a long batch
AcceptedScores == <<610, 900, 600, 750>>

\* what the filter rejects or cannot compare
RejectedScores ==
    {Absent, PyNone, PyFloat(Thousandths(AutoPreferences, 590)), PyFloat(0)}

AcceptedBatch(n, b) ==
    [k \in 1..n |->
        AutoJob(PyFloat(Thousandths(AutoPreferences,
                                    AcceptedScores[((k + b) % Len(AcceptedScores)) + 1])))]

\* batches of accepted listings, and the same with the first or the last
\* listing replaced by a rejected one
AutoBatches ==
    LET accepted == {AcceptedBatch(n, b) : n \in 0..MaxAutoJobs, b \in 0..1}
    IN accepted
       \cup {[batch EXCEPT ![p].match_score = v] :
                batch \in accepted \ {<<>>}, p \in {1}, v \in RejectedScores}
       \cup {[batch EXCEPT ![Len(batch)].match_score = v] :
                batch \in accepted \ {<<>>}, v \in RejectedScores}

\* the state at the call of process_jobs_automatically(batch)
StartProcess(P, batch) ==
    /\ preferences = P
    /\ now = BatchNow
    /\ jobs = [k \in 1..Len(batch) |-> k]
    /\ heap = batch
    /\ input = batch
    /\ pc = "process"
    /\ i = 1
    /\ recent_jobs = <<>>
    /\ scored_jobs = <<>>
    /\ filtered_jobs = <<>>
    /\ result = <<>>
    /\ exc = "none"
    /\ results = NewResults(0)
    /\ prepared = <<>>
    /\ calls = 0

InitProcess == \E batch \in AutoBatches : StartProcess(AutoPreferences, batch)

SpecProcess == InitProcess /\ [][NextProcess]_vars

(***************************************************************************)
(* The claims.  Their conditions are written from the claims' words, on    *)
(* the listings as they were at the call.                                  *)
(***************************************************************************)
Range(s) == {s[k] : k \in 1..Len(s)}

Occurrences(s, r) == Cardinality({k \in 1..Len(s) : s[k] = r})

\* the text of a field, empty when the field is missing
TextOf(v) == IF v.t = "str" THEN v.s ELSE <<>>

\* every field of the listing is a string or is missing
WellFormed(job) ==
    \A v \in {job.titre, job.description, job.localisation, job.type_contrat,
              job.salaire, job.date_publication} : v.t \in {"absent", "str"}

\* the score of the listing at the call is s tenths or more
ScoresAtLeast(P, job, s) ==
    LET score == calculate_match_score(P, job)
    IN score.ok /\ 10 * score.v >= s * Unit(P)

\* mots_cles is empty or one of its entries occurs in title + description
ContainsMandatoryKeyword(P, job) ==
    \/ P.mots_cles = <<>>
    \/ \E k \in 1..Len(P.mots_cles) :
          IsSubstr(Lower(P.mots_cles[k]),
                   Lower(TextOf(job.titre) \o <<" ">> \o TextOf(job.description)))

\* an entry of localisation contains "remote", whatever the case
RemoteLike(P) ==
    \E k \in 1..Len(P.localisation) :
       \E m \in 0..(Len(P.localisation[k]) - 6) :
          Lower(SubSeq(P.localisation[k], m + 1, m + 6)) = <<"r", "e", "m", "o", "t", "e">>

\* a preferred location is a substring of the listing's location text
LocationMatches(P, job) ==
    \E k \in 1..Len(P.localisation) :
       IsSubstr(Lower(P.localisation[k]), Lower(TextOf(job.localisation)))

\* the mandatory location requirement, as the code applies it
SatisfiesLocation(P, job) ==
    \/ P.localisation = <<>>
    \/ RemoteLike(P)
    \/ TextOf(job.localisation) = <<>>
    \/ LocationMatches(P, job)

\* the date of the listing parses as YYYY-MM-DD
ParsesAsDate(job) ==
    job.date_publication.t = "str" /\ Strptime(job.date_publication.s).ok

\* whole days from the date of the listing to the day of the clock
DaysOld(job, t) ==
    LET c == Strptime(job.date_publication.s) IN t[1] - Ordinal(c.y, c.m, c.d)

\* the recency loop is over and filter_jobs went on
PastRecency == pc \in {"scoring", "gate", "returned"}

\* C1: the score of every listing, for every preferences object, is a number
\* between 0 and 1, and so is every match_score that filter_jobs writes and
\* that its output carries.
C1_ScoreInUnitInterval ==
    /\ \A k \in 1..Len(input) :
          LET score == calculate_match_score(preferences, input[k])
          IN score.ok => 0 <= score.v /\ score.v <= Unit(preferences)
    /\ \A r \in Range(scored_jobs) \cup Range(filtered_jobs) \cup Range(result) :
          /\ heap[r].match_score.t = "float"
          /\ 0 <= heap[r].match_score.n
          /\ heap[r].match_score.n <= Unit(preferences)

\* C1 witness: filter_jobs returned a listing whose match_score is above 0.9
C1_Witness ==
    /\ pc = "returned"
    /\ \E r \in Range(result) : 10 * heap[r].match_score.n > 9 * Unit(preferences)

\* C2: every listing kept by the threshold filter, and so every listing of
\* the output, carries the score computed for it in this call, which is 0.60
\* or more; a recent listing that scores exactly 0.60 is kept by the
\* threshold filter; no listing without a score is in the output.
C2_OutputCarriesAcceptedScore ==
    /\ \A r \in Range(scored_jobs) \cup Range(filtered_jobs) \cup Range(result) :
          LET score == calculate_match_score(preferences, input[r])
          IN /\ score.ok
             /\ heap[r].match_score = PyFloat(score.v)
             /\ 10 * score.v >= 6 * Unit(preferences)
    /\ pc \in {"gate", "returned"} =>
          \A r \in Range(recent_jobs) :
             LET score == calculate_match_score(preferences, input[r])
             IN (score.ok /\ 10 * score.v = 6 * Unit(preferences))
                   => r \in Range(scored_jobs)

\* C2 witness: the output holds a listing that scores exactly 0.60
C2_Witness ==
    /\ pc = "returned"
    /\ \E r \in Range(result) : 10 * heap[r].match_score.n = 6 * Unit(preferences)

\* the listing passes the recency filter: no date, or a date that does not
\* parse, or a date at most 7 days old
PassesRecency(job, t) ==
    \/ job.date_publication.t = "absent"
    \/ job.date_publication = PyStr(<<>>)
    \/ job.date_publication.t = "str" /\ ~ParsesAsDate(job)
    \/ ParsesAsDate(job) /\ DaysOld(job, t) <= 7

C4_OutputContainsMandatoryKeyword ==
    \A r \in Range(filtered_jobs) \cup Range(result) :
       ContainsMandatoryKeyword(preferences, input[r])

\* C4 witness: a listing passed the 0.60 threshold, holds no mandatory
\* keyword and is not in the output, which holds another listing
C4_Witness ==
    /\ pc = "returned"
    /\ result # <<>>
    /\ \E r \in Range(scored_jobs) :
          /\ ~ContainsMandatoryKeyword(preferences, input[r])
          /\ r \notin Range(result)

\* the listing went through the keyword gate and reached the location gate
ReachedLocationGate(r) ==
    /\ r \in Range(scored_jobs)
    /\ ContainsMandatoryKeyword(preferences, input[r])

\* C5 as stated: with no remote-like entry in localisation (the empty list
\* included), the gate passes a listing without location text, and passes a
\* listing with location text only if a preferred location is a substring.
C5_Original ==
    (pc = "returned" /\ ~RemoteLike(preferences)) =>
       \A r \in Range(scored_jobs) :
          ReachedLocationGate(r) =>
             /\ TextOf(input[r].localisation) = <<>> => r \in Range(result)
             /\ (TextOf(input[r].localisation) # <<>> /\ r \in Range(result))
                   => LocationMatches(preferences, input[r])

\* C5 amended: the same for a localisation list that is not empty; with an
\* empty list the gate passes every listing.
C5_LocationGateWithoutRemote ==
    (pc = "returned" /\ ~RemoteLike(preferences)) =>
       \A r \in Range(scored_jobs) :
          ReachedLocationGate(r) =>
             /\ TextOf(input[r].localisation) = <<>> => r \in Range(result)
             /\ (/\ preferences.localisation # <<>>
                 /\ TextOf(input[r].localisation) # <<>>
                 /\ r \in Range(result))
                   => LocationMatches(preferences, input[r])
             /\ preferences.localisation = <<>> => r \in Range(result)

\* C5 witness: a location preference without remote is set and the gate
\* removed a listing whose location text holds no preferred location
C5_Witness ==
    /\ pc = "returned"
    /\ preferences.localisation # <<>>
    /\ ~RemoteLike(preferences)
    /\ \E r \in Range(scored_jobs) :
          /\ ReachedLocationGate(r)
          /\ TextOf(input[r].localisation) # <<>>
          /\ ~LocationMatches(preferences, input[r])
          /\ r \notin Range(result)

\* C6: with a remote-like entry in localisation the location gate passes
\* every listing: every listing that reached it is in the output, and the
\* gate raises nothing.
C6_RemoteRelaxesLocationGate ==
    RemoteLike(preferences) =>
       /\ ~(pc = "raised" /\ exc = "AttributeError")
       /\ pc = "returned" =>
             \A r \in Range(scored_jobs) : ReachedLocationGate(r) => r \in Range(result)

\* C6 witness: remote is preferred and the output holds a listing whose
\* location text holds no preferred location
C6_Witness ==
    /\ pc = "returned"
    /\ RemoteLike(preferences)
    /\ \E r \in Range(result) :
          /\ TextOf(input[r].localisation) # <<>>
          /\ ~LocationMatches(preferences, input[r])

\* the place of r in the list s
IndexOf(s, r) == CHOOSE k \in 1..Len(s) : s[k] = r

\* C7: the output is in non-increasing order of match_score, listings of
\* equal match_score are in the order of the batch, and the gate keeps the
\* order of the ranked list.
C7_RankedStable ==
    /\ pc \in {"gate", "returned"} =>
          \A a, b \in 1..Len(scored_jobs) :
             a < b =>
                /\ ScoreOf(heap, scored_jobs[a]) >= ScoreOf(heap, scored_jobs[b])
                /\ ScoreOf(heap, scored_jobs[a]) = ScoreOf(heap, scored_jobs[b])
                      => scored_jobs[a] < scored_jobs[b]
    /\ \A s \in {filtered_jobs, result} :
          \A a, b \in 1..Len(s) :
             a < b =>
                /\ ScoreOf(heap, s[a]) >= ScoreOf(heap, s[b])
                /\ ScoreOf(heap, s[a]) = ScoreOf(heap, s[b]) => s[a] < s[b]
                /\ IndexOf(scored_jobs, s[a]) < IndexOf(scored_jobs, s[b])

\* C7 witness: the output holds two listings in the reverse of their order
\* in the batch
C7_Witness ==
    /\ pc = "returned"
    /\ \E a, b \in 1..Len(result) : a < b /\ result[a] > result[b]

C9_RecencyNeverRaises ==
    /\ ~(pc = "raised" /\ exc = "TypeError")
    /\ PastRecency =>
          \A k \in 1..Len(input) : ~ParsesAsDate(input[k]) => k \in Range(recent_jobs)

\* the listings of the batch that no stage fails on
Sound(k) ==
    /\ is_job_recent(input[k], now).ok
    /\ calculate_match_score(preferences, input[k]).ok

\* C10: filter_jobs never raises; the listings on which a stage fails are
\* skipped and the output is the one of the batch without them: the sound
\* listings that are recent, score 0.60 or more and pass the gates.
C10_NeverRaisesSkipsFailing ==
    /\ pc # "raised"
    /\ pc = "returned" =>
          Range(result) =
             {k \in 1..Len(input) :
                 /\ Sound(k)
                 /\ PassesRecency(input[k], now)
                 /\ ScoresAtLeast(preferences, input[k], 6)
                 /\ ContainsMandatoryKeyword(preferences, input[k])
                 /\ SatisfiesLocation(preferences, input[k])}

\* the value extracted from the salary text of the listing, if any
ExtractedSalary(job) ==
    IF job.salaire.t = "str" THEN extract_salary_value(job.salaire.s) ELSE NoValue

\* location, contract type and every scoring keyword match, and the salary
\* extracted from the listing is salaire_min or more, salaire_min being set
PerfectMatch(P, job) ==
    /\ LocationMatches(P, job)
    /\ \E k \in 1..Len(P.type_contrat) :
          IsSubstr(Lower(P.type_contrat[k]), Lower(TextOf(job.type_contrat)))
    /\ \A k \in 1..Len(P.stack_technique) :
          IsSubstr(Lower(P.stack_technique[k]),
                   Lower(TextOf(job.titre) \o <<" ">> \o TextOf(job.description)))
    /\ P.salaire_min > 0
    /\ ExtractedSalary(job).some
    /\ ExtractedSalary(job).v >= P.salaire_min

\* C11 as stated: a listing that matches the preferences perfectly, with a
\* salary of salaire_min or more, scores 1.0.
C11_Original ==
    \A k \in 1..Len(input) :
       PerfectMatch(preferences, input[k]) =>
          LET score == calculate_match_score(preferences, input[k])
          IN score.ok /\ score.v = Unit(preferences)

\* C11 amended: with a stack_technique that is not empty such a listing
\* scores 0.95, the company-size term being the constant 0.5, and the
\* match_score that filter_jobs writes on it is 0.95.
C11_PerfectMatchScore ==
    \A k \in 1..Len(input) :
       (PerfectMatch(preferences, input[k]) /\ preferences.stack_technique # <<>>) =>
          LET score == calculate_match_score(preferences, input[k])
          IN /\ score.ok
             /\ 100 * score.v = 95 * Unit(preferences)
             /\ k \in Range(scored_jobs) =>
                   100 * heap[k].match_score.n = 95 * Unit(preferences)

\* C11 witness: filter_jobs returned a perfectly matching listing, scored
\* against two scoring keywords
C11_Witness ==
    /\ pc = "returned"
    /\ Len(preferences.stack_technique) = 2
    /\ \E r \in Range(result) :
          /\ PerfectMatch(preferences, input[r])
          /\ heap[r].match_score.t = "float"

\* nothing is configured: no scoring keyword, no location, no contract type,
\* no minimum salary
Unconfigured(P) ==
    /\ P.stack_technique = <<>>
    /\ P.localisation = <<>>
    /\ P.type_contrat = <<>>
    /\ P.salaire_min = 0

\* C12: with no preference configured, each of the five sub-scores of every
\* listing is 0.5, whatever its fields hold or lack, its score is exactly
\* 0.5, and nothing is raised.
C12_UnconfiguredScoresHalf ==
    Unconfigured(preferences) =>
       /\ pc # "raised"
       /\ \A k \in 1..Len(input) :
             /\ \A sub \in {calculate_keyword_score(preferences, input[k]),
                            calculate_location_score(preferences, input[k]),
                            calculate_contract_score(preferences, input[k]),
                            calculate_salary_score(preferences, input[k]),
                            calculate_company_score(preferences, input[k])} :
                   sub.ok /\ 2 * sub.v = Unit(preferences)
             /\ calculate_match_score(preferences, input[k]).ok
             /\ 2 * calculate_match_score(preferences, input[k]).v = Unit(preferences)

\* C12 witness: with no preference configured filter_jobs went through a
\* listing whose location is None and whose salary is a number, and returned
C12_Witness ==
    /\ pc = "returned"
    /\ Unconfigured(preferences)
    /\ \E k \in Range(recent_jobs) :
          /\ input[k].localisation = PyNone
          /\ input[k].salaire.t = "int"
          /\ k \notin Range(result)

\* the listing passed the recency filter of this call
IsRecent(k) == is_job_recent(input[k], now).ok /\ is_job_recent(input[k], now).v

\* C13: every record of the batch keeps each of its fields with the value it
\* had at the call, match_score aside; once the scoring loop is over,
\* match_score is written exactly on the records that are recent and score
\* 0.60 or more, and every other record is as it was at the call.
C13_OnlyMatchScoreAdded ==
    /\ Len(heap) = Len(input)
    /\ \A k \in 1..Len(input) :
          /\ DOMAIN heap[k] = DOMAIN input[k]
          /\ \A f \in DOMAIN input[k] \ {"match_score"} : heap[k][f] = input[k][f]
          /\ heap[k].match_score.t \in {"absent", "float"}
    /\ pc \in {"gate", "returned"} =>
          \A k \in 1..Len(input) :
             IF IsRecent(k) /\ ScoresAtLeast(preferences, input[k], 6)
             THEN heap[k].match_score.t = "float"
             ELSE heap[k] = input[k]
    /\ (pc = "raised" /\ exc = "TypeError") => heap = input

\* C13 witness: filter_jobs returned after it wrote match_score on one
\* record, dropped a second, recent one at the threshold and left it as it
\* was
C13_Witness ==
    /\ pc = "returned"
    /\ \E a, b \in 1..Len(input) :
          /\ heap[a].match_score.t = "float"
          /\ heap[a] # input[a]
          /\ IsRecent(b)
          /\ ~ScoresAtLeast(preferences, input[b], 6)
          /\ heap[b] = input[b]

\* C14: the output holds listings of the batch only, each at most once, so
\* it is no longer than the batch; the gate only removes listings from the
\* ranked list; a listing of the ranked list or of the output is not older
\* than 7 days, was kept by the recency filter and scores 0.60 or more, so
\* none that these filters dropped is among them.
C14_FilteringMonotonic ==
    /\ Len(result) <= Len(input)
    /\ \A s \in {recent_jobs, scored_jobs, filtered_jobs, result} :
          \A r \in Range(s) : r \in 1..Len(input) /\ Occurrences(s, r) = 1
    /\ Range(result) \subseteq Range(filtered_jobs)
    /\ Range(filtered_jobs) \subseteq Range(scored_jobs)
    /\ Range(scored_jobs) \subseteq Range(recent_jobs)
    /\ \A r \in Range(scored_jobs) \cup Range(filtered_jobs) \cup Range(result) :
          /\ ~(ParsesAsDate(input[r]) /\ DaysOld(input[r], now) > 7)
          /\ r \in Range(recent_jobs)
          /\ ScoresAtLeast(preferences, input[r], 6)

\* C14 witness: filter_jobs returned one listing of a batch of two, the
\* other one being older than 7 days
C14_Witness ==
    /\ pc = "returned"
    /\ Len(result) = 1
    /\ \E k \in 1..Len(input) :
          /\ ParsesAsDate(input[k])
          /\ DaysOld(input[k], now) > 7
          /\ ScoresAtLeast(preferences, input[k], 6)
          /\ ContainsMandatoryKeyword(preferences, input[k])
          /\ SatisfiesLocation(preferences, input[k])

\* the salary sub-score that the match_score written on the listing holds:
\* what is left of it once the four other terms are taken away
WrittenSalaryScore(k) ==
    (100 * heap[k].match_score.n
     - weights.keywords * calculate_keyword_score(preferences, input[k]).v
     - weights.location * calculate_location_score(preferences, input[k]).v
     - weights.contract_type * calculate_contract_score(preferences, input[k]).v
     - weights.company_size * calculate_company_score(preferences, input[k]).v)
    \div weights.salary

\* the salary sub-score of the listing is x tenths, and so is the one its
\* match_score holds once filter_jobs wrote it
SalaryScoreIs(k, x) ==
    /\ calculate_salary_score(preferences, input[k]) = Returned(Tenths(preferences, x))
    /\ heap[k].match_score.t = "float" =>
          WrittenSalaryScore(k) = Tenths(preferences, x)

\* C15: an amount written in groups of three digits parted by spaces and
\* followed by the euro sign is extracted whole; n followed by K or k is
\* extracted as n * 1000; a text that no pattern matches gives no value,
\* raises nothing, and gets the salary sub-score 0.3 when a minimum is set.
C15_DocumentedNotations ==
    \A k \in 1..Len(input) :
       LET sa == input[k].salaire
       IN /\ \A n \in SalaryAmounts :
                sa = PyStr(Grouped(DecimalDigits(n)) \o <<" ", Euro>>)
                   => ExtractedSalary(input[k]) = [some |-> TRUE, v |-> n]
          /\ \A n \in SalaryThousands :
                sa \in {PyStr(DecimalDigits(n) \o <<"K">>), PyStr(DecimalDigits(n) \o <<"k">>)}
                   => ExtractedSalary(input[k]) = [some |-> TRUE, v |-> n * 1000]
          /\ sa = PyStr(wCompetitive) =>
                /\ ExtractedSalary(input[k]) = NoValue
                /\ preferences.salaire_min > 0 => SalaryScoreIs(k, 3)
                /\ pc \in {"gate", "returned"} => heap[k].match_score.t = "float"

\* C15 witness: with a minimum of 40000, filter_jobs returned a listing
\* whose salary reads 45 000 and the euro sign, with the salary sub-score 1.0
C15_Witness ==
    /\ pc = "returned"
    /\ preferences.salaire_min = 40000
    /\ \E r \in Range(result) :
          /\ input[r].salaire = PyStr(<<"4", "5", " ", "0", "0", "0", " ", Euro>>)
          /\ WrittenSalaryScore(r) = Unit(preferences)

\* C16: a plain amount followed by the euro sign or by EUR, its digits
\* written in one run or in groups of three parted by spaces, the ending
\* glued or after a space, is extracted as the value of the whole amount,
\* and the listing is scored with it.
C16_PlainAmountExtracted ==
    \A k \in Range(scored_jobs) :
       \A n \in SalaryAmounts, e \in CurrencyEndings :
          input[k].salaire \in {PyStr(DecimalDigits(n) \o e),
                                PyStr(Grouped(DecimalDigits(n)) \o e)}
             => /\ ExtractedSalary(input[k]) = [some |-> TRUE, v |-> n]
                /\ (preferences.salaire_min > 0 /\ n >= preferences.salaire_min)
                      => WrittenSalaryScore(k) = Unit(preferences)

\* C17: with a minimum m > 0 and a value v extracted from the salary text,
\* the salary sub-score is 1.0 if v >= m, 0.7 if 0.8 * m <= v < m and 0.3 if
\* v < 0.8 * m; it is 0.3 when the salary text is missing or gives no value;
\* with m <= 0 it is 0.5 whatever the salary of the listing.
C17_SalaryScoreTiers ==
    \A k \in 1..Len(input) :
       LET m == preferences.salaire_min
           sa == input[k].salaire
           value == ExtractedSalary(input[k])
       IN /\ m <= 0 => SalaryScoreIs(k, 5)
          /\ (m > 0 /\ sa \in {Absent, PyNone, PyStr(<<>>)}) => SalaryScoreIs(k, 3)
          /\ (m > 0 /\ sa.t = "str" /\ ~value.some) => SalaryScoreIs(k, 3)
          /\ (m > 0 /\ value.some) =>
                /\ value.v >= m => SalaryScoreIs(k, 10)
                /\ (10 * value.v >= 8 * m /\ value.v < m) => SalaryScoreIs(k, 7)
                /\ 10 * value.v < 8 * m => SalaryScoreIs(k, 3)

\* C17 witness: with a minimum of 40000, filter_jobs returned a listing
\* whose salary is extracted as 32000, exactly 80% of it, with the salary
\* sub-score 0.7
C17_Witness ==
    /\ pc = "returned"
    /\ preferences.salaire_min = 40000
    /\ \E r \in Range(result) :
          /\ ExtractedSalary(input[r]) = [some |-> TRUE, v |-> 32000]
          /\ WrittenSalaryScore(r) = Tenths(preferences, 7)

\* the location sub-score that the match_score written on the listing holds
WrittenLocationScore(k) ==
    (100 * heap[k].match_score.n
     - weights.keywords * calculate_keyword_score(preferences, input[k]).v
     - weights.contract_type * calculate_contract_score(preferences, input[k]).v
     - weights.salary * calculate_salary_score(preferences, input[k]).v
     - weights.company_size * calculate_company_score(preferences, input[k]).v)
    \div weights.location

\* the location sub-score of the listing is x tenths, and so is the one its
\* match_score holds once filter_jobs wrote it
LocationScoreIs(k, x) ==
    /\ calculate_location_score(preferences, input[k]) = Returned(Tenths(preferences, x))
    /\ heap[k].match_score.t = "float" =>
          WrittenLocationScore(k) = Tenths(preferences, x)

\* a preferred location has a similarity ratio of 0.8 or more with the
\* location text of the listing
LocationResembles(P, job) ==
    \E k \in 1..Len(P.localisation) :
       fuzzy_match(Lower(P.localisation[k]), Lower(TextOf(job.localisation)))

\* the listing has a location that is a text, or has none
TextualLocation(job) == job.localisation.t \in {"absent", "str"}

\* C18: the location sub-score is 0.5 if localisation is empty, whatever the
\* listing; otherwise 0.3 if the listing has no location text; otherwise 1.0
\* if a preferred location is a substring of the location of the listing,
\* even when an earlier entry only resembles it; otherwise 0.8 if a
\* preferred location has a similarity ratio of 0.8 or more with it;
\* otherwise 0.2.
C18_LocationScorePrecedence ==
    \A k \in 1..Len(input) :
       LET P == preferences
           job == input[k]
       IN IF P.localisation = <<>> THEN LocationScoreIs(k, 5)
          ELSE TextualLocation(job) =>
                 IF TextOf(job.localisation) = <<>> THEN LocationScoreIs(k, 3)
                 ELSE IF LocationMatches(P, job) THEN LocationScoreIs(k, 10)
                 ELSE IF LocationResembles(P, job) THEN LocationScoreIs(k, 8)
                 ELSE LocationScoreIs(k, 2)

\* C18 witness: the first preferred location only resembles the location of
\* the listing, a later one is a substring of it, and filter_jobs returned
\* the listing with the location sub-score 1.0
C18_Witness ==
    /\ pc = "returned"
    /\ Len(preferences.localisation) = 2
    /\ \E r \in Range(result) :
          LET first == Lower(preferences.localisation[1])
              text == Lower(TextOf(input[r].localisation))
          IN /\ ~IsSubstr(first, text)
             /\ fuzzy_match(first, text)
             /\ IsSubstr(Lower(preferences.localisation[2]), text)
             /\ WrittenLocationScore(r) = Unit(preferences)

\* the text t is the word w with one character put in, w being no substring
\* of t
OneInserted(w, t) ==
    /\ Len(t) = Len(w) + 1
    /\ \E p \in 1..Len(t) : SubSeq(t, 1, p - 1) \o SubSeq(t, p + 1, Len(t)) = w
    /\ ~IsSubstr(w, t)

WrittenKeywordScore(k) ==
    (100 * heap[k].match_score.n
     - weights.location * calculate_location_score(preferences, input[k]).v
     - weights.contract_type * calculate_contract_score(preferences, input[k]).v
     - weights.salary * calculate_salary_score(preferences, input[k]).v
     - weights.company_size * calculate_company_score(preferences, input[k]).v)
    \div weights.keywords

\* the entries of stack_technique, each counted by its place in the list,
\* that occur in the title + description of the listing, whatever the case
MatchedEntries(P, job) ==
    {j \in 1..Len(P.stack_technique) :
        IsSubstr(Lower(P.stack_technique[j]),
                 Lower(TextOf(job.titre) \o <<" ">> \o TextOf(job.description)))}

\* C20: with n > 0 entries in stack_technique the keyword sub-score is k/n,
\* k being the number of entries, equal ones counted each, that occur in the
\* title + description whatever the case; with no entry it is 0.5; it is
\* always between 0 and 1; the match_score written holds the same value.
C20_KeywordScoreFraction ==
    \A k \in 1..Len(input) :
       LET P == preferences
           n == Len(P.stack_technique)
           score == calculate_keyword_score(P, input[k])
       IN /\ score.ok
          /\ 0 <= score.v /\ score.v <= Unit(P)
          /\ n = 0 => 2 * score.v = Unit(P)
          /\ n > 0 => n * score.v = Cardinality(MatchedEntries(P, input[k])) * Unit(P)
          /\ heap[k].match_score.t = "float" => WrittenKeywordScore(k) = score.v

\* C20 witness: of three scoring keywords two are equal, filter_jobs
\* returned a listing that holds these two only, with the keyword sub-score
\* 2/3
C20_Witness ==
    /\ pc = "returned"
    /\ Len(preferences.stack_technique) = 3
    /\ \E a, b \in 1..3 :
          a < b /\ Lower(preferences.stack_technique[a]) = Lower(preferences.stack_technique[b])
    /\ \E r \in Range(result) :
          /\ Cardinality(MatchedEntries(preferences, input[r])) = 2
          /\ 3 * WrittenKeywordScore(r) = 2 * Unit(preferences)

\* the contract sub-score that the match_score written on the listing holds
WrittenContractScore(k) ==
    (100 * heap[k].match_score.n
     - weights.keywords * calculate_keyword_score(preferences, input[k]).v
     - weights.location * calculate_location_score(preferences, input[k]).v
     - weights.salary * calculate_salary_score(preferences, input[k]).v
     - weights.company_size * calculate_company_score(preferences, input[k]).v)
    \div weights.contract_type

\* the contract sub-score of the listing is x tenths, and so is the one its
\* match_score holds once filter_jobs wrote it
ContractScoreIs(k, x) ==
    /\ calculate_contract_score(preferences, input[k]) = Returned(Tenths(preferences, x))
    /\ heap[k].match_score.t = "float" =>
          WrittenContractScore(k) = Tenths(preferences, x)

\* a preferred contract type is a substring, whatever the case, of the
\* contract type of the listing
ContractMatches(P, job) ==
    \E k \in 1..Len(P.type_contrat) :
       IsSubstr(Lower(P.type_contrat[k]), Lower(TextOf(job.type_contrat)))

\* C21: the contract sub-score is 0.5 if type_contrat is empty, whatever the
\* listing holds; otherwise 0.3 if the listing has no contract type;
\* otherwise 1.0 if a preferred contract type is a substring, whatever the
\* case, of the contract type of the listing, and 0.2 if none is.
C21_ContractScoreRules ==
    \A k \in 1..Len(input) :
       LET P == preferences
           job == input[k]
       IN IF P.type_contrat = <<>> THEN ContractScoreIs(k, 5)
          ELSE job.type_contrat.t \in {"absent", "str"} =>
                 IF TextOf(job.type_contrat) = <<>> THEN ContractScoreIs(k, 3)
                 ELSE IF ContractMatches(P, job) THEN ContractScoreIs(k, 10)
                 ELSE ContractScoreIs(k, 2)

\* C21 witness: filter_jobs returned a listing whose contract type holds a
\* preferred one written in another case beside another type, with the
\* contract sub-score 1.0
C21_Witness ==
    /\ pc = "returned"
    /\ \E r \in Range(result) :
          /\ \E j \in 1..Len(preferences.type_contrat) :
                /\ ~IsSubstr(preferences.type_contrat[j], TextOf(input[r].type_contrat))
                /\ IsSubstr(Lower(preferences.type_contrat[j]),
                            Lower(TextOf(input[r].type_contrat)))
                /\ Len(TextOf(input[r].type_contrat)) > Len(preferences.type_contrat[j])
          /\ WrittenContractScore(r) = Unit(preferences)

\* what the fields of one listing alone decide, its match_score at the call
\* left aside: whether filter_jobs keeps it, and with which score
OwnVerdict(P, t, job) ==
    LET own == [job EXCEPT !.match_score = Absent]
        recent == is_job_recent(own, t)
        score == calculate_match_score(P, own)
        located == meets_location_requirement(P, own)
    IN [kept |-> /\ recent.ok /\ recent.v
                 /\ score.ok /\ score.v >= Tenths(P, MinScoreTenths)
                 /\ has_required_keywords(P, own)
                 /\ located.ok /\ located.v,
        score |-> score.v]

\* C22: once filter_jobs is over, whether a listing is in its output, and
\* the match_score it carries there, are what the fields of this listing
\* alone decide, whatever the other listings of the batch and their order.
C22_IndependentPerListing ==
    pc \in {"returned", "raised"} =>
       \A k \in 1..Len(input) :
          LET own == OwnVerdict(preferences, now, input[k])
          IN /\ k \in Range(result) <=> own.kept
             /\ k \in Range(result) => heap[k].match_score = PyFloat(own.score)

\* the character c in upper case
UpperChar(c) ==
    IF \E k \in 1..Len(Lowers) : Lowers[k] = c
    THEN Uppers[CHOOSE k \in 1..Len(Lowers) : Lowers[k] = c]
    ELSE c

\* the ways to change the letter case of a text
CaseModes == {"asis", "upper", "lower"}

\* the text s with its letter case changed
Recase(s, mode) ==
    CASE mode = "upper" -> [k \in 1..Len(s) |-> UpperChar(s[k])]
      [] mode = "lower" -> [k \in 1..Len(s) |-> LowerChar(s[k])]
      [] OTHER -> s

\* the field v with the letter case of its text, if it is one, changed
RecaseField(v, mode) == IF v.t = "str" THEN PyStr(Recase(v.s, mode)) ELSE v

\* the listing with the letter case of its texts changed
RecaseJob(job, mode) ==
    [job EXCEPT !.titre = RecaseField(@, mode),
                !.description = RecaseField(@, mode),
                !.localisation = RecaseField(@, mode),
                !.type_contrat = RecaseField(@, mode),
                !.salaire = RecaseField(@, mode)]

\* the preferences with the letter case of every entry changed
RecasePreferences(P, mode) ==
    [P EXCEPT !.stack_technique = [k \in 1..Len(@) |-> Recase(@[k], mode)],
              !.localisation = [k \in 1..Len(@) |-> Recase(@[k], mode)],
              !.type_contrat = [k \in 1..Len(@) |-> Recase(@[k], mode)],
              !.mots_cles = [k \in 1..Len(@) |-> Recase(@[k], mode)]]

\* the five sub-scores, the score and the outcome of the two gates
Assessment(P, job) ==
    <<calculate_keyword_score(P, job), calculate_location_score(P, job),
      calculate_contract_score(P, job), calculate_salary_score(P, job),
      calculate_company_score(P, job), calculate_match_score(P, job),
      has_required_keywords(P, job), meets_location_requirement(P, job)>>

\* C23: changing the letter case of the texts of a listing, or of the
\* entries of the preferences, changes no sub-score, nor the score, nor the
\* outcome of the mandatory keyword and location gates: the listings that
\* filter_jobs returned, and their match_score, are those it would return
\* with the case changed.
C23_CaseInsensitive ==
    pc = "returned" =>
       \A k \in 1..Len(input) :
          \A mj \in CaseModes, mp \in CaseModes :
             LET J == RecaseJob(input[k], mj)
                 Q == RecasePreferences(preferences, mp)
             IN /\ Assessment(Q, J) = Assessment(preferences, input[k])
                /\ k \in Range(result) <=> OwnVerdict(Q, now, J).kept
                /\ k \in Range(result) =>
                      heap[k].match_score = PyFloat(OwnVerdict(Q, now, J).score)

\* C23 witness: filter_jobs returned a listing whose salary reads 45K, with
\* a minimum salary set, and whose texts and preferences both change when
\* put in lower case
C23_Witness ==
    /\ pc = "returned"
    /\ preferences.salaire_min > 0
    /\ RecasePreferences(preferences, "lower") # preferences
    /\ \E r \in Range(result) :
          /\ input[r].salaire = PyStr(<<"4", "5", "K">>)
          /\ RecaseJob(input[r], "lower") # input[r]
          /\ input[r].localisation.t = "str"

\* the listings of the batch with a match_score of at least 0.6
Qualifying == {k \in 1..Len(input) : /\ input[k].match_score.t \in {"int", "float"}
                                     /\ input[k].match_score.n >= Tenths(preferences, 6)}

\* every match_score of the batch is a number, or is missing
ScoresAreNumbers ==
    \A k \in 1..Len(input) : input[k].match_score.t \in {"int", "float", "absent"}

\* the listings the loop has taken so far
Handled == SubSeq(filtered_jobs, 1, i - 1)

\* the listings for which the letter could not be written
WithoutLetter == {results.errors[k].job : k \in {e \in 1..Len(results.errors) :
                                                   results.errors[e].kind = "erreur"}}

\* C24: process_jobs_automatically prepares an application only for listings
\* whose match_score is at least 0.6, a missing match_score counting as 0; it
\* handles at most 10 listings in a call, and when more than 10 qualify it
\* handles the 10 of highest score, in descending order of score.
C24_AppliesToBestTen ==
    pc \in {"handling", "processed"} =>
       /\ \A r \in Range(prepared) : r \in Qualifying /\ input[r].match_score # Absent
       /\ Len(Handled) <= 10
       /\ Len(prepared) <= 10
       /\ prepared = SelectSeq(Handled, LAMBDA r : r \notin WithoutLetter)
       /\ (pc = "processed" /\ ScoresAreNumbers) =>
             /\ Len(Handled) = Min2(10, Cardinality(Qualifying))
             /\ Cardinality(Range(Handled)) = Len(Handled)
             /\ Range(Handled) \subseteq Qualifying
             /\ \A a \in 1..Len(Handled), b \in 1..Len(Handled) :
                   a < b => input[Handled[a]].match_score.n >= input[Handled[b]].match_score.n
             /\ \A q \in Qualifying \ Range(Handled), r \in Range(Handled) :
                   input[q].match_score.n <= input[r].match_score.n

C24_Witness ==
    /\ pc = "processed"
    /\ Cardinality(Qualifying) > 10
    /\ input[1].match_score = Absent
    /\ prepared = <<5, 9, 3, 7, 11, 4, 8, 12, 2, 6>>
    /\ results.candidatures_sent = 10

\* the endings of the patterns in the order the claim gives: the euro sign,
\* EUR, k and the euro sign, K
ClaimedOrder == << <<Euro>>, <<"E", "U", "R">>, <<"k", Euro>>, <<"K">> >>

\* the value the claim gives for a salary text: the group of the first
\* pattern of ClaimedOrder among those of the set found, times 1000 when
\* the lower-cased text holds a k
ValueOfFirst(s, found) ==
    IF found = {} THEN NoValue
    ELSE LET first == CHOOSE k \in found : \A o \in found : k <= o
             number == RemoveBlanks(Search(s, ClaimedOrder[first]).group)
         IN IF ~AllDigits(number) THEN [some |-> TRUE, v |-> -1]
            ELSE [some |-> TRUE,
                  v |-> IF \E p \in 1..Len(s) : Lower(s)[p] = "k"
                        THEN DecimalValue(number) * 1000
                        ELSE DecimalValue(number)]

\* the patterns that match somewhere in the text
Matching(s) == {k \in 1..Len(ClaimedOrder) : Search(s, ClaimedOrder[k]).found}

\* the patterns that match somewhere in the text with a group that reads as
\* a number once its blanks are removed
MatchingNumber(s) ==
    {k \in Matching(s) : AllDigits(RemoveBlanks(Search(s, ClaimedOrder[k]).group))}

\* the salary sub-score of the tiers for an extracted value, in tenths
TierOf(P, value) ==
    IF P.salaire_min <= 0 THEN 5
    ELSE IF ~value.some THEN 3
    ELSE IF value.v >= P.salaire_min THEN 10
    ELSE IF 10 * value.v >= 8 * P.salaire_min THEN 7
    ELSE 3

\* the salary text of a scored listing gives the value, and the match_score
\* written on the listing holds the salary sub-score of that value
ExtractsAs(k, value) ==
    /\ ExtractedSalary(input[k]) = value
    /\ WrittenSalaryScore(k) = Tenths(preferences, TierOf(preferences, value))

\* C25 as claimed: _extract_salary_value uses the first pattern, in the
\* order euro sign, EUR, k-euro, K, that matches anywhere in the text, and
\* returns its number times 1000 exactly when the lower-cased text holds a k;
\* the listings are those the scoring loop has scored.
C25_Original ==
    \A k \in Range(scored_jobs) :
       (input[k].salaire.t = "str" /\ input[k].salaire.s # <<>>) =>
          ExtractsAs(k, ValueOfFirst(input[k].salaire.s, Matching(input[k].salaire.s)))

\* C25: _extract_salary_value uses the first pattern, in the order euro
\* sign, EUR, k-euro, K, that matches anywhere in the text with a group that
\* reads as a number once its blanks are removed; it returns that number
\* times 1000 exactly when the lower-cased text holds a k anywhere, and the
\* number unchanged otherwise; with no such pattern it returns no value.
\* The listings are those the scoring loop has scored.
C25_FirstPatternThatParses ==
    \A k \in Range(scored_jobs) :
       (input[k].salaire.t = "str" /\ input[k].salaire.s # <<>>) =>
          ExtractsAs(k, ValueOfFirst(input[k].salaire.s, MatchingNumber(input[k].salaire.s)))

\* C25 witness: with a minimum of 40000, filter_jobs returned a listing
\* whose salary text has a tabulation inside the amount that the first
\* pattern matches, and 50K behind: it was scored with 50000, at 1.0
C25_Witness ==
    /\ pc = "returned"
    /\ preferences.salaire_min = 40000
    /\ \E r \in Range(result) :
          /\ input[r].salaire = PyStr(w45Tab000 \o <<" ", Euro, " ", "5", "0", "K">>)
          /\ Matching(input[r].salaire.s) = {1, 4}
          /\ ExtractedSalary(input[r]) = [some |-> TRUE, v |-> 50000]
          /\ WrittenSalaryScore(r) = Unit(preferences)

\* a hundred times the weighted sum of the five sub-scores, before the cap
WeightedSum100(P, job) ==
    calculate_keyword_score(P, job).v * weights.keywords
    + calculate_location_score(P, job).v * weights.location
    + calculate_contract_score(P, job).v * weights.contract_type
    + calculate_salary_score(P, job).v * weights.salary
    + calculate_company_score(P, job).v * weights.company_size

C27_UnconfiguredReturnsNothing ==
    Unconfigured(preferences) =>
       /\ pc # "raised"
       /\ pc = "returned" => result = <<>>
       /\ scored_jobs = <<>>
       /\ \A k \in 1..Len(input) :
             LET score == calculate_match_score(preferences, input[k])
             IN /\ score.ok
                /\ 2 * score.v = Unit(preferences)
                /\ score.v < Tenths(preferences, 6)

\* C28: when localisation is not empty and has no remote-like entry, every
\* listing with location text that filter_jobs returns has the location
\* sub-score 1.0, and a listing whose location sub-score is 0.8 (it only
\* resembles a preferred location) is never returned, whatever its score:
\* the location gate removes it when it reaches it.
C28_OutputLocationScoreIsOne ==
    (pc = "returned" /\ preferences.localisation # <<>> /\ ~RemoteLike(preferences)) =>
       /\ \A r \in Range(result) :
             TextOf(input[r].localisation) # <<>> =>
                /\ LocationScoreIs(r, 10)
                /\ WrittenLocationScore(r) = Unit(preferences)
       /\ \A k \in 1..Len(input) :
             calculate_location_score(preferences, input[k])
                = Returned(Tenths(preferences, 8))
                => /\ k \notin Range(result)
                   /\ k \notin Range(filtered_jobs)

\* C28 witness: a listing whose location only resembles the preferred one
\* was scored 0.6 or more with the location sub-score 0.8, went through the
\* keyword gate, and filter_jobs returned without it
C28_Witness ==
    /\ pc = "returned"
    /\ preferences.localisation # <<>>
    /\ ~RemoteLike(preferences)
    /\ \E k \in Range(scored_jobs) :
          /\ ReachedLocationGate(k)
          /\ WrittenLocationScore(k) = Tenths(preferences, 8)
          /\ ~LocationMatches(preferences, input[k])
          /\ k \notin Range(result)

\* the gate removed the listing: it was scored and is not in the output
RemovedByGate(r) == r \in Range(scored_jobs) /\ r \notin Range(result)

\* C29: every listing that reaches the gate step has a match_score of 0.60
\* or more, the safety floor 0.30 being under the acceptance threshold 0.60
\* and tested after it, so the floor test removes no listing: a listing the
\* gate removes lacks a mandatory keyword or fails the location
\* requirement.
C29_FloorNeverRemoves ==
    /\ Tenths(preferences, 3) < Tenths(preferences, 6)
    /\ \A r \in Range(scored_jobs) :
          /\ heap[r].match_score.t = "float"
          /\ heap[r].match_score.n >= Tenths(preferences, 6)
          /\ ~(ScoreOf(heap, r) < Tenths(preferences, 3))
    /\ pc = "gate" =>
          \A r \in Range(SubSeq(scored_jobs, 1, i - 1)) :
             r \notin Range(filtered_jobs) =>
                \/ ~ContainsMandatoryKeyword(preferences, input[r])
                \/ ~SatisfiesLocation(preferences, input[r])
    /\ pc = "returned" =>
          \A r \in 1..Len(input) :
             RemovedByGate(r) =>
                \/ ~ContainsMandatoryKeyword(preferences, input[r])
                \/ ~SatisfiesLocation(preferences, input[r])

\* C29 witness: filter_jobs returned after its gate removed a listing scored
\* 0.6 or more, while a recent listing scored between 0.3 and 0.6 had been
\* dropped by the threshold before the gate
C29_Witness ==
    /\ pc = "returned"
    /\ \E r \in 1..Len(input) :
          RemovedByGate(r) /\ heap[r].match_score.n >= Tenths(preferences, 6)
    /\ \E k \in Range(recent_jobs) :
          LET score == calculate_match_score(preferences, input[k])
          IN /\ score.ok
             /\ score.v >= Tenths(preferences, 3)
             /\ score.v < Tenths(preferences, 6)
             /\ k \notin Range(scored_jobs)

\* C30: filter_jobs applied to its own output, with the same preferences at
\* the same time, returns the same listings in the same order with the same
\* match_score values: the second call raises nothing, its output is its
\* argument, and every listing keeps the match_score it came with.
C30_Idempotent ==
    calls >= 2 =>
       /\ pc # "raised"
       /\ pc = "returned" =>
             /\ result = jobs
             /\ \A r \in Range(jobs) :
                   /\ heap[r].match_score = input[r].match_score
                   /\ heap[r].match_score.t = "float"

\* C30 witness: the first call returned two listings in the reverse of the
\* order of the batch, and the second call, on that list, has returned
C30_Witness ==
    /\ calls = 2
    /\ pc = "returned"
    /\ jobs = <<2, 1>>
    /\ result = <<2, 1>>
    /\ heap[2].match_score.n > heap[1].match_score.n

=============================================================================
